---- MODULE Spec2Model ----
(***************************************************************************)
(* ALUR: openEHR -> FHIR ETL pipeline (src/application).                   *)
(*                                                                         *)
(* The model follows one process running alur_cycle() in a loop           *)
(* (src/application/main.py) against a PostgreSQL store whose connections  *)
(* are handed out with autocommit = True (utils/session.py:56), an openEHR *)
(* server answering AQL queries and a FHIR server answering search / PUT / *)
(* POST.  Times are whole hours counted from FETCH_START_DATE.             *)
(***************************************************************************)
EXTENDS Integers, Sequences, FiniteSets, TLC

(***************************************************************************)
(* Bounds of the model                                                     *)
(***************************************************************************)
\* identifiers / composition ids the EHR can return
NumIdents == 2
\* rows of one AQL result set
MaxRows == 2
\* highest SERIAL id a standard staging table hands out
MaxStdId == 2
\* highest SERIAL id the consent staging table hands out
MaxConsentId == 2
\* resources the FHIR server may hold for one (type, identifier)
MaxCopies == 2
\* heartbeat probes of one cycle
MaxProbes == 1
\* nesting depth of a mapping template below its top-level field
MaxDepth == 2

(***************************************************************************)
(* Configuration (conf/config.py)                                          *)
(***************************************************************************)
FETCH_BY_DATE_ENABLED == TRUE
FETCH_START_DATE == 0
FETCH_END_DATE == 15
\* an end_date inside the first window: start_date + 5 h with a 6 h interval
FETCH_END_DATE_SHORT == 5
FETCH_INTERVAL_HOURS == 6
POLL_INTERVAL == 1
USE_BATCH == TRUE
BATCH_SIZE == 2
QUERY_RETRIES_ENABLED == TRUE
QUERY_RETRY_COUNT == 2
\* server_health_check.max_retries, set
HEALTH_CHECK_MAX_RETRIES == 1

Tables == {"condition", "consent"}
\* RESOURCES of resource.yml, in file order
RESOURCES == <<"condition", "consent">>

Idents == 1..NumIdents
\* a group key that is NULL in the staging table (None in the record read);
\* ORDER BY puts it after every value.  NumIdents + 1 is the identifier of a
\* row that was stored before the process started.
NULL_KEY == NumIdents + 2

MaxId(r) == IF r = "consent" THEN MaxConsentId ELSE MaxStdId

VARIABLES
    pc,            \* stage of alur_cycle the process is at
    ri,            \* index into RESOURCES of the fetch loop
    probes,        \* attempt counter of server_heartbeat_check
    fetch_state,   \* table fetch_state: resource -> (last_run_time, next_run_time)
    staging,       \* per-resource staging tables: sets of rows
    nextId,        \* SERIAL sequence of each staging table
    fhir_queue,    \* table fhir_queue: set of rows
    queueSeq,      \* SERIAL sequence of fhir_queue.id
    fhir,          \* FHIR server: (type, identifier) -> number of resources
    batch,         \* staging rows read by process_resource, still to do; the
                   \* rows read by process_consent_resources
    mapped,        \* Consent resources mapped by process_consent_resources, still to do
    rows,          \* batch read by the running publisher loop, still to do
    cur,           \* queue row the publisher is working on
    step,          \* position of the publisher inside the row's handling
    attempt,       \* send_fhir_consent's attempt counter
    result,        \* return value of send_fhir_resource / send_fhir_consent
    processed_in_cycle, \* flag of poll_and_process_fhir_consent
    lastFetch,     \* history: what the last query_resource did
    lastEnq,       \* history: the last enqueue and the queue before it
    lastPub,       \* history: the last HTTP exchange of a publisher
    sentInvalid,   \* history: Consent identifiers answered 4xx in this run
    fetch_end_date, \* fetch_by_date.end_date of the running configuration
    cycle,         \* history: the heartbeat's result in the running cycle, and
                   \* whether the stage before the one about to start raised
    row_data,      \* a call of map_and_clean_resource: its resource_data,
    yaml_mappings, \* its mappings,
    yaml_required, \* its required_fields,
    fhir_resource, \* and what it returned
    aes_call,      \* a call of aes_encrypt followed by aes_decrypt: the
                   \* plaintext, the key and what each returned
    state_file,    \* utils_state: the JSON state file, or no file
    state_calls,   \* utils_state: the configuration, history of the values
                   \* set, and the last get_last_run_time call with its result
    pg_pool,       \* session.py: the connection pool and the connections made
    db_thread,     \* a thread using the pool: the calls it still has to make,
                   \* the connections it holds, history of its last call
    fetch_cycle,   \* the fetches of alur_cycle against the clock: the time,
                   \* the resources with a fetch_state row, the position in
                   \* the cycle, history of the last AQL request
    pg_table,      \* db.py: one staging table with its columns and the number
                   \* of its rows; history: the keys of the last records stored
    fetch_threads  \* query_all_resources: the calls its thread (0) and the
                   \* workers of its executor still make, the connections
                   \* each holds; history: whether its fetch has raised

dbVars == <<fetch_state, staging, nextId, fhir_queue, queueSeq>>
pubVars == <<batch, mapped, rows, cur, step, attempt, result, processed_in_cycle>>
vars == <<pc, ri, probes, fetch_state, staging, nextId, fhir_queue, queueSeq,
          fhir, batch, mapped, rows, cur, step, attempt, result, processed_in_cycle,
          lastFetch, lastEnq, lastPub, sentInvalid, fetch_end_date, cycle,
          row_data, yaml_mappings, yaml_required, fhir_resource, aes_call,
          state_file, state_calls, pg_pool, db_thread, fetch_cycle,
          pg_table, fetch_threads>>
mapVars == <<row_data, yaml_mappings, yaml_required, fhir_resource>>
\* the variables of the functions that are called on their own
stateVars == <<state_file, state_calls>>
poolVars == <<pg_pool, db_thread, fetch_threads>>
unitVars == <<mapVars, aes_call, stateVars, poolVars, fetch_cycle, pg_table>>

(***************************************************************************)
(* Values                                                                  *)
(***************************************************************************)
NoRow == [id |-> 0, rtype |-> "", identifier |-> 0, nprov |-> 0, processed |-> FALSE]
NoFetch == [res |-> "", ok |-> FALSE, failed |-> FALSE, wrote |-> FALSE,
            start |-> 0, end |-> 0, received |-> 0, stored |-> 0]
NoEnq == [rtype |-> "", identifier |-> 0, hit |-> FALSE, same |-> FALSE,
          nprov |-> 0, src |-> 0]
NoCycle == [heartbeat |-> "none", probed |-> {}, raised |-> FALSE]
NoPub == [rtype |-> "", identifier |-> 0, found |-> FALSE, verb |-> "", status |-> 0,
          writes |-> 0, result |-> "none", resent |-> FALSE, done |-> FALSE]


\* the sequences over S of length 0..n
RECURSIVE SeqsUpTo(_, _)
SeqsUpTo(S, n) ==
    IF n = 0 THEN {<<>>}
    ELSE LET shorter == SeqsUpTo(S, n - 1)
         IN shorter \cup {Append(s, x) : s \in {t \in shorter : Len(t) = n - 1}, x \in S}

(***************************************************************************)
(* utils/state.py                                                          *)
(***************************************************************************)
\* get_fetch_state: the stored last_run_time, else the configured start date
get_fetch_state(r) ==
    IF fetch_state[r].present THEN fetch_state[r].last
    ELSE FETCH_START_DATE

calculate_next_run_time(last_run_time) ==
    IF FETCH_BY_DATE_ENABLED THEN last_run_time + FETCH_INTERVAL_HOURS
    ELSE last_run_time + POLL_INTERVAL

\* upsert of the resource's row
update_fetch_state(fs, r, last_run_time, next_run_time) ==
    [fs EXCEPT ![r] = [present |-> TRUE, last |-> last_run_time, next |-> next_run_time]]

(***************************************************************************)
(* utils/db.py: store_records_in_db with autocommit: executemany inserts   *)
(* row by row, so a failure at row k + 1 leaves the first k rows stored.   *)
(***************************************************************************)
store_records_in_db(tbl, first, rs, k) ==
    tbl \cup {[id |-> first + i - 1, ident |-> rs[i], processed |-> FALSE] : i \in 1..k}

(***************************************************************************)
(* utils/openehr_query.py: query_resource                                  *)
(***************************************************************************)
WindowStart(r) ==
    IF FETCH_BY_DATE_ENABLED THEN get_fetch_state(r) ELSE FETCH_START_DATE

WindowEnd(r) ==
    LET end_dt == WindowStart(r) + FETCH_INTERVAL_HOURS
    IN IF end_dt > fetch_end_date THEN fetch_end_date ELSE end_dt

\* the same fetch with fetch_state written after every response
query_resource_always_updates(r, status, rs, k) ==
    LET start == WindowStart(r)
        stored == IF status = 200 THEN k ELSE 0
    IN /\ status \in {200, 204, 500}
       /\ k \in 0..Len(rs)
       /\ status # 200 => (rs = <<>> /\ k = 0)
       /\ Len(rs) > 0 => nextId[r] + Len(rs) - 1 <= MaxId(r)
       /\ staging' = [staging EXCEPT ![r] = store_records_in_db(@, nextId[r], rs, stored)]
       /\ nextId' = [nextId EXCEPT ![r] = @ + stored]
       /\ fetch_state' = update_fetch_state(fetch_state, r, start,
                                            calculate_next_run_time(start))
       /\ lastFetch' = [res |-> r, ok |-> (status = 200),
                        failed |-> (stored < Len(rs)), wrote |-> TRUE,
                        start |-> start, end |-> WindowEnd(r),
                        received |-> Len(rs), stored |-> stored]

query_resource(r, status, rs, k) ==
    LET start == WindowStart(r)
        stored == IF status = 200 THEN k ELSE 0
    IN /\ status \in {200, 204, 500}
       /\ k \in 0..Len(rs)
       /\ status # 200 => (rs = <<>> /\ k = 0)
       /\ Len(rs) > 0 => nextId[r] + Len(rs) - 1 <= MaxId(r)
       /\ staging' = [staging EXCEPT ![r] = store_records_in_db(@, nextId[r], rs, stored)]
       /\ nextId' = [nextId EXCEPT ![r] = @ + stored]
       /\ fetch_state' = IF status = 200
                         THEN update_fetch_state(fetch_state, r, start,
                                                 calculate_next_run_time(start))
                         ELSE fetch_state
       /\ lastFetch' = [res |-> r, ok |-> (status = 200),
                        failed |-> (stored < Len(rs)), wrote |-> (status = 200),
                        start |-> start, end |-> WindowEnd(r),
                        received |-> Len(rs), stored |-> stored]

(***************************************************************************)
(* utils/db_reader.py, utils/db_consent.py: reads of unprocessed rows      *)
(***************************************************************************)
Unprocessed(S) == {x \in S : ~x.processed}

\* SELECT ... WHERE processed = FALSE LIMIT n: any n of the rows
Limit(S, n) ==
    {b \in SUBSET S : Cardinality(b) = IF n < Cardinality(S) THEN n ELSE Cardinality(S)}

read_unprocessed_rows(tbl) == {Unprocessed(tbl)}

read_unprocessed_rows_in_batch(tbl, batch_size) == Limit(Unprocessed(tbl), batch_size)

read_unprocessed_consents(tbl) == {Unprocessed(tbl)}

\* ... ORDER BY composition_id LIMIT n: the n rows with the least keys
read_unprocessed_consents_in_batch(tbl, batch_size) ==
    {b \in Limit(Unprocessed(tbl), batch_size) :
        \A x \in b, y \in Unprocessed(tbl) \ b : x.ident <= y.ident}

mark_consent_as_processed_by_composition(tbl, composition_id) ==
    {IF x.ident = composition_id THEN [x EXCEPT !.processed = TRUE] ELSE x : x \in tbl}

delete_consent_by_group(tbl, value) == {x \in tbl : x.ident # value}

(***************************************************************************)
(* utils/central_processor.py: the standard enqueue.  fhir_queue has       *)
(* PRIMARY KEY (id) and UNIQUE (identifier).  ON CONFLICT (id) DO NOTHING  *)
(* ignores a taken id; a taken identifier under a free id is a unique      *)
(* violation, which the except branch logs: the queue is left as it was.   *)
(***************************************************************************)
\* the same insert into a queue table declared without UNIQUE (identifier)
insert_into_fhir_queue_no_unique(q, resource_type, identifier, row_id) ==
    IF \E x \in q : x.id = row_id THEN q
    ELSE q \cup {[id |-> row_id, rtype |-> resource_type, identifier |-> identifier,
                  nprov |-> 0, processed |-> FALSE]}

insert_into_fhir_queue(q, resource_type, identifier, row_id) ==
    IF \E x \in q : x.id = row_id THEN q
    ELSE IF \E x \in q : x.identifier = identifier THEN q
    ELSE q \cup {[id |-> row_id, rtype |-> resource_type, identifier |-> identifier,
                  nprov |-> 0, processed |-> FALSE]}

(***************************************************************************)
(* utils/central_processor_consent.py: the Consent enqueue.  The id comes  *)
(* from the table's sequence; ON CONFLICT (identifier) DO NOTHING ignores  *)
(* a taken identifier; a taken id is a primary-key violation, logged.      *)
(***************************************************************************)
insert_into_fhir_queue_consent(q, resource_type, composition_id, nprov, seq) ==
    IF \E x \in q : x.identifier = composition_id THEN q
    ELSE IF \E x \in q : x.id = seq THEN q
    ELSE q \cup {[id |-> seq, rtype |-> resource_type, identifier |-> composition_id,
                  nprov |-> nprov, processed |-> FALSE]}

(***************************************************************************)
(* utils/mapper_consent.py.  A record carries the length of its           *)
(* provision_list (0 for a staging row, which has no such column).         *)
(***************************************************************************)

\* one merged record per group key: the first record's non-provision columns
\* (id and provision_list among them) and one appended provision per record
group_provisions(records) ==
    {LET group == {rec \in records : rec.ident = key}
         first == CHOOSE rec \in group : \A o \in group : rec.id <= o.id
     IN [ident |-> key, id |-> first.id,
         provision_list |-> (IF "provision_list" \in DOMAIN first
                            THEN first.provision_list ELSE 0)
                           + Cardinality(group)] :
        key \in {rec.ident : rec \in {x \in records : x.ident # 0}}}

\* line 36: record.get(group_by, "").strip() raises AttributeError on None
group_provisions_raises(records) == \E rec \in records : rec.ident = NULL_KEY

\* groups its input once more (line 95), wraps each provision_list into the
\* provision of the rendered resource, whose id is the group key
map_consent_resources(records) ==
    {[id |-> data.ident, nprov |-> data.provision_list] :
        data \in group_provisions(records)}

(***************************************************************************)
(* utils/mapper.py.  A Python value is a record [t, v]: t its type, v its  *)
(* payload (a string, a sequence of values, a function from keys to        *)
(* values).  A template string is a sequence of parts: literal text and    *)
(* {{ column }} placeholders.                                              *)
(***************************************************************************)
PyNone == [t |-> "none", v |-> ""]
Str(s) == [t |-> "str", v |-> s]
List(s) == [t |-> "list", v |-> s]
Dict(f) == [t |-> "dict", v |-> f]
Lit(s) == [k |-> "lit", s |-> s]
Var(s) == [k |-> "var", s |-> s]
Tpl(parts) == [t |-> "tpl", v |-> parts]
EmptyDict == Dict([k \in {} |-> PyNone])

\* dict.get(key): None for a missing key
Get(d, key) == IF key \in DOMAIN d THEN d[key] ELSE PyNone

\* bool(value)
Truthy(value) ==
    CASE value.t = "none" -> FALSE
      [] value.t = "str" -> value.v # ""
      [] value.t = "list" -> Len(value.v) > 0
      [] value.t = "dict" -> DOMAIN value.v # {}

\* str.lower() on the strings of the model
Lower(s) == IF s = "None" THEN "none" ELSE IF s = "Code" THEN "code" ELSE s

\* str.startswith(("http://", "https://")) on the strings of the model
StartsWithHttp(s) ==
    s \in {"http://loinc.org", "http://snomed.info/sct", "http://example.org/cs"}

\* strptime(date_str, "%Y-%m-%dT%H:%M:%S.%f") among the strings of the model:
\* the format demands the fraction, so only the timestamp written with one
\* is parsed (a host running on UTC renders it unchanged); every other
\* string, the same instant without fraction included, is a ValueError
fix_fhir_datetime(date_str) ==
    IF ~Truthy(date_str) \/ Lower(date_str.v) \in {"none", "null"} THEN PyNone
    ELSE IF date_str.v = "2020-01-01T00:00:00.000000" THEN Str("2020-01-01T00:00:00Z")
    ELSE PyNone

ensure_valid_uri(system_value) ==
    LET system_mappings == [s \in {"SNOMED Clinical Terms", "LOINC"} |->
                               IF s = "LOINC" THEN "http://loinc.org"
                               ELSE "http://snomed.info/sct"]
    IN
    IF ~Truthy(system_value) \/ Lower(system_value.v) \in {"none", "null"} THEN Str("")
    ELSE IF system_value.v \in DOMAIN system_mappings
    THEN Str(system_mappings[system_value.v])
    ELSE IF ~StartsWithHttp(system_value.v) THEN Str("http://" \o system_value.v)
    ELSE system_value

\* value in [None, "None", "null", "", {}]
InLeafEmpties(value) ==
    \/ value.t = "none"
    \/ value.t = "str" /\ value.v \in {"None", "null", ""}
    \/ value.t = "dict" /\ DOMAIN value.v = {}

\* the same check with only None and "" taken for empty
validate_required_fields_none_only(resource_data, required_fields) ==
    \A field \in required_fields :
        LET value == Get(resource_data, field)
        IN ~(value.t = "none" \/ (value.t = "str" /\ value.v = ""))

validate_required_fields(resource_data, required_fields) ==
    \A field \in required_fields :
        LET value == Get(resource_data, field)
        IN IF value.t = "list"
           THEN ~(Len(value.v) = 0 \/ \A i \in 1..Len(value.v) : ~Truthy(value.v[i]))
           ELSE ~InLeafEmpties(value)

\* value in [None, "", "None", "null", {}, [], [{}]]
InEmpties(value) ==
    \/ InLeafEmpties(value)
    \/ value.t = "list" /\ Len(value.v) = 0
    \/ /\ value.t = "list" /\ Len(value.v) = 1
       /\ value.v[1].t = "dict" /\ DOMAIN value.v[1].v = {}

\* the same cleaning with the items of a list kept as they are
RECURSIVE clean_section_flat_lists(_)
clean_section_flat_lists(section) ==
    IF section.t = "dict"
    THEN LET c == [k \in DOMAIN section.v |-> clean_section_flat_lists(section.v[k])]
             keep == {k \in DOMAIN section.v : ~InEmpties(c[k])}
         IN IF keep = {} THEN PyNone ELSE Dict([k \in keep |-> c[k]])
    ELSE IF section.t = "list"
    THEN IF Len(section.v) = 0 THEN PyNone ELSE section
    ELSE IF InLeafEmpties(section) THEN PyNone ELSE section

RECURSIVE clean_section(_)
clean_section(section) ==
    IF section.t = "dict"
    THEN LET c == [k \in DOMAIN section.v |-> clean_section(section.v[k])]
             keep == {k \in DOMAIN section.v : ~InEmpties(c[k])}
         IN IF keep = {} THEN PyNone ELSE Dict([k \in keep |-> c[k]])
    ELSE IF section.t = "list"
    THEN LET cleaned_list ==
                 SelectSeq([i \in 1..Len(section.v) |-> clean_section(section.v[i])],
                           LAMBDA item : ~InEmpties(item))
         IN IF Len(cleaned_list) = 0 THEN PyNone ELSE List(cleaned_list)
    ELSE IF InLeafEmpties(section) THEN PyNone ELSE section

\* Template(template).render(resource_data); PyStr is str(value) as Jinja2
\* prints it, and a name the row does not have prints as ""
RECURSIVE Render(_, _)
Render(parts, resource_data) ==
    IF Len(parts) = 0 THEN ""
    ELSE LET PyStr(value) ==
                 CASE value.t = "none" -> "None"
                   [] value.t = "str" -> value.v
                   [] value.t = "list" /\ Len(value.v) = 0 -> "[]"
                   [] value.t = "dict" /\ DOMAIN value.v = {} -> "{}"
             p == Head(parts)
             text == IF p.k = "lit" THEN p.s
                     ELSE IF p.s \in DOMAIN resource_data THEN PyStr(resource_data[p.s])
                     ELSE ""
         IN text \o Render(Tail(parts), resource_data)

RECURSIVE resolve_value(_, _)
resolve_value(template, resource_data) ==
    CASE template.t = "tpl" ->
           LET rendered == Render(template.v, resource_data)
           IN IF rendered = "" THEN PyNone ELSE Str(rendered)
      [] template.t = "dict" ->
           Dict([k \in DOMAIN template.v |-> resolve_value(template.v[k], resource_data)])
      [] template.t = "list" ->
           List([i \in 1..Len(template.v) |-> resolve_value(template.v[i], resource_data)])
      [] OTHER -> template

\* fix_coding_system: the system of every coding that has one
fix_coding_system(coding_list) ==
    List([i \in 1..Len(coding_list.v) |->
            LET coding == coding_list.v[i]
            IN IF "system" \in DOMAIN coding.v
               THEN Dict([coding.v EXCEPT !["system"] = ensure_valid_uri(@)])
               ELSE coding])

FixCoding(item) ==
    IF item.t = "dict" /\ "coding" \in DOMAIN item.v
    THEN Dict([item.v EXCEPT !["coding"] = fix_coding_system(@)])
    ELSE item

\* resource: the dict of the mapped top-level fields
fix_system_uris(resource) ==
    [key \in DOMAIN resource |->
        LET item == resource[key]
        IN IF key \notin {"code", "category", "reasonCode", "severity", "outcome",
                          "statusReason"} THEN item
           ELSE IF item.t = "dict" THEN FixCoding(item)
           ELSE IF item.t = "list"
           THEN List([i \in 1..Len(item.v) |-> FixCoding(item.v[i])])
           ELSE item]

\* a dict is a function, which has no key order: the fields and their values
\* are those of the resource given
enforce_field_order(resource_type, resource) ==
    [field \in DOMAIN resource.v |-> resource.v[field]]

map_and_clean_resource(resource_data, mappings, required_fields) ==
    IF ~validate_required_fields(resource_data, required_fields) THEN EmptyDict
    ELSE LET resolved == [key \in DOMAIN mappings |->
                             resolve_value(mappings[key], resource_data)]
             dated == [key \in DOMAIN resolved |->
                          IF key \in {"recordedDate", "onsetDateTime", "abatementDateTime",
                                     "effectiveDateTime", "performedDateTime"}
                          THEN fix_fhir_datetime(resolved[key])
                          ELSE resolved[key]]
             cleaned == clean_section(Dict(fix_system_uris(dated)))
         IN IF Truthy(cleaned)
            THEN Dict(enforce_field_order(Get(cleaned.v, "resourceType"), cleaned))
            ELSE EmptyDict

(***************************************************************************)
(* The condition resource, with the mapping and the required fields of    *)
(* tests/test_utils_mapping.py (setUp).                                    *)
(***************************************************************************)
CONDITION_MAPPINGS ==
    [identifier |-> List(<<Dict([value |-> Tpl(<<Var("Composition_ID")>>)])>>),
     code |-> Dict([coding |-> List(<<Dict([code |-> Tpl(<<Var("Condition_code")>>),
                                           display |-> Tpl(<<Var("Condition_Display")>>)])>>)]),
     category |-> Dict([text |-> Tpl(<<Var("Condition_category")>>)])]
CONDITION_REQUIRED == {"Composition_ID", "Condition_code"}

NoData == [k \in {} |-> PyNone]

\* what a TEXT column can hold that counts as empty
TextEmpties == {PyNone, Str(""), Str("None"), Str("null")}

FullRow(i) ==
    [Composition_ID |-> Str(ToString(i)), Condition_code |-> Str("A01"),
     Condition_Display |-> Str("Test Condition"), Condition_category |-> Str("Diagnosis")]

\* dict(row) of a staging row.  ident 0 stands for the rows with an
\* empty-equivalent required column; their other columns are filled.
RowData(row) ==
    IF row.ident # 0 THEN {FullRow(row.ident)}
    ELSE {[FullRow(i) EXCEPT ![col] = e] :
             i \in Idents, col \in CONDITION_REQUIRED, e \in TextEmpties}

\* process_single_row's call of the mapper, for the rows of each ident
MappedRows ==
    [i \in Idents \cup {0} |->
        {map_and_clean_resource(data, CONDITION_MAPPINGS, CONDITION_REQUIRED) :
            data \in RowData([ident |-> i])}]

(***************************************************************************)
(* Encryption (utils/encryption.py), deterministic mode.  The cipher is    *)
(* scaled down: a byte has BYTE_VALUES values, a block BLOCK_SIZE bytes,   *)
(* and the block cipher is a keyed permutation of the blocks with its      *)
(* inverse; padding, chaining and the layout of the output are the code's. *)
(***************************************************************************)
BYTE_VALUES == 4
BLOCK_SIZE == 2
NumKeys == 2
MaxPlainLen == 3

Bytes(octets) == [t |-> "bytes", v |-> octets]
NoValue == [t |-> "none", v |-> <<>>]

NoAes == [step |-> "idle", plaintext |-> NoValue, aes_key |-> 0,
          ciphertext |-> NoValue, again |-> NoValue, decrypted |-> NoValue]

\* str.encode("utf-8") of a text of one-byte code points
encode_utf8(text) == Bytes(text.v)
\* base64.b64encode(..).decode("utf-8") and base64.b64decode: a text that
\* stands for the octets, and the octets it stands for
b64encode(data) == [t |-> "str", v |-> <<"b64">> \o data.v]
b64decode(text) == Bytes(Tail(text.v))

RECURSIVE xor(_, _)
xor(a, b) ==
    IF a = 0 /\ b = 0 THEN 0
    ELSE ((a + b) % 2) + 2 * xor(a \div 2, b \div 2)

XorBlock(x, y) == [i \in 1..BLOCK_SIZE |-> xor(x[i], y[i])]

RECURSIVE BlockNumber(_)
BlockNumber(block) ==
    IF block = <<>> THEN 0
    ELSE BlockNumber(SubSeq(block, 1, Len(block) - 1)) * BYTE_VALUES + block[Len(block)]

RECURSIVE Power(_, _)
Power(b, n) == IF n = 0 THEN 1 ELSE b * Power(b, n - 1)

NumberBlock(n) ==
    [i \in 1..BLOCK_SIZE |-> (n \div Power(BYTE_VALUES, BLOCK_SIZE - i)) % BYTE_VALUES]

\* the block cipher under a key and its inverse
AES_encrypt_block(aes_key, block) ==
    NumberBlock((5 * BlockNumber(block) + 3 * aes_key + 1) % Power(BYTE_VALUES, BLOCK_SIZE))
AES_decrypt_block(aes_key, block) ==
    NumberBlock((13 * (BlockNumber(block) + 2 * Power(BYTE_VALUES, BLOCK_SIZE) - 3 * aes_key - 1)) % Power(BYTE_VALUES, BLOCK_SIZE))

\* hashlib.sha256(..).digest()[:16]: a fixed function of the octets to a block
RECURSIVE sha256(_)
sha256(octets) ==
    IF octets = <<>> THEN 11
    ELSE (7 * sha256(SubSeq(octets, 1, Len(octets) - 1)) + octets[Len(octets)] + 3) % Power(BYTE_VALUES, BLOCK_SIZE)

derive_iv(plaintext) == NumberBlock(sha256(encode_utf8(plaintext).v))

\* Cipher(AES(key), CBC(iv)).encryptor() over whole blocks
RECURSIVE CBC_encrypt(_, _, _)
CBC_encrypt(aes_key, iv, octets) ==
    IF octets = <<>> THEN <<>>
    ELSE LET c == AES_encrypt_block(aes_key, XorBlock(SubSeq(octets, 1, BLOCK_SIZE), iv))
         IN  c \o CBC_encrypt(aes_key, c, SubSeq(octets, BLOCK_SIZE + 1, Len(octets)))

\* Cipher(AES(key), CBC(iv)).decryptor() over whole blocks
RECURSIVE CBC_decrypt(_, _, _)
CBC_decrypt(aes_key, iv, octets) ==
    IF octets = <<>> THEN <<>>
    ELSE LET c == SubSeq(octets, 1, BLOCK_SIZE)
         IN  XorBlock(AES_decrypt_block(aes_key, c), iv)
             \o CBC_decrypt(aes_key, c, SubSeq(octets, BLOCK_SIZE + 1, Len(octets)))

aes_encrypt(plaintext, aes_key) ==
    LET iv == derive_iv(plaintext)
        octets == encode_utf8(plaintext).v
        \* PKCS7(block_size).padder(): n = block_size - len % block_size octets of value n
        n == BLOCK_SIZE - (Len(octets) % BLOCK_SIZE)
        padded_data == octets \o [i \in 1..n |-> n]
        ciphertext == CBC_encrypt(aes_key, iv, padded_data)
        combined == iv \o ciphertext
    IN  b64encode(Bytes(combined))

aes_decrypt(ciphertext_b64, aes_key, plaintext_hint) ==
    LET data == b64decode(ciphertext_b64).v
    IN  IF plaintext_hint.t = "none" \/ plaintext_hint.v = <<>> THEN ciphertext_b64
        ELSE LET iv == derive_iv(plaintext_hint)
                 ct == data
                 padded == CBC_decrypt(aes_key, iv, ct)
                 len == Len(padded)
                 n == IF len = 0 THEN 0 ELSE padded[len]
             \* PKCS7(block_size).unpadder(): the padding removed, or ValueError
             IN  IF len = 0 \/ len % BLOCK_SIZE # 0 \/ n < 1 \/ n > BLOCK_SIZE
                    \/ \E i \in (len - n + 1)..len : padded[i] # n
                 THEN [t |-> "raised", v |-> <<>>]
                 ELSE Bytes(SubSeq(padded, 1, len - n))


(***************************************************************************)
(* utils/resource.py, utils/resource_consent.py: one search-then-write     *)
(* exchange with the FHIR server.  so: status of the search (0 = request   *)
(* exception), ws: status of the PUT/POST, ap: the server applied the      *)
(* write.  The search reports the resources the server holds.              *)
(***************************************************************************)
SearchStatuses == {200, 500, 0}
WriteStatuses == {201, 400, 500, 0}

\* what the server can do with a write answered ws
Applied(ws) == IF ws = 201 THEN {TRUE} ELSE IF ws = 0 THEN {TRUE, FALSE} ELSE {FALSE}

\* the same exchange with the search result ignored: always POST
send_fhir_resource_always_post(resource_type, resource_identifier, so, ws, ap) ==
    IF so # 200
    THEN [search |-> so, before |-> fhir[<<resource_type, resource_identifier>>],
          verb |-> "", status |-> 0, created |-> FALSE, result |-> "false"]
    ELSE [search |-> so, before |-> fhir[<<resource_type, resource_identifier>>],
          verb |-> "POST", status |-> ws, created |-> ap,
          result |-> IF ws = 201 THEN "true" ELSE "false"]

send_fhir_resource(resource_type, resource_identifier, so, ws, ap) ==
    LET total == fhir[<<resource_type, resource_identifier>>]
        verb == IF total > 0 THEN "PUT" ELSE "POST"
    IN IF so # 200
       THEN [search |-> so, before |-> total, verb |-> "", status |-> 0,
             created |-> FALSE, result |-> "false"]
       ELSE [search |-> so, before |-> total, verb |-> verb, status |-> ws,
             created |-> (verb = "POST" /\ ap),
             result |-> IF ws = 201 THEN "true" ELSE "false"]

\* one pass of the while loop of send_fhir_consent; "raised" = the pass ended
\* in an except branch and falls through to the attempt counter
send_fhir_consent(resource_identifier, so, ws, ap) ==
    LET total == fhir[<<"consent", resource_identifier>>]
        verb == IF total > 0 THEN "PUT" ELSE "POST"
    IN IF so = 0
       THEN [search |-> so, before |-> total, verb |-> "", status |-> 0,
             created |-> FALSE, result |-> "raised"]
       ELSE IF so # 200
       THEN [search |-> so, before |-> total, verb |-> "", status |-> 0,
             created |-> FALSE, result |-> "false"]
       ELSE [search |-> so, before |-> total, verb |-> verb, status |-> ws,
             created |-> (verb = "POST" /\ ap),
             result |-> IF ws = 201 THEN "true"
                        ELSE IF ws = 400 THEN "invalid"
                        ELSE IF ws = 500 THEN "false"
                        ELSE "raised"]

\* DELETE FROM fhir_queue WHERE processed = TRUE instead of WHERE id = %s
DeleteQueue_all_processed(q, id) == {x \in q : ~x.processed /\ x.id # id}

\* the statements of mark_as_processed_and_delete / mark_consent_as_processed_and_delete
MarkQueue(q, id) == {IF x.id = id THEN [x EXCEPT !.processed = TRUE] ELSE x : x \in q}
DeleteQueue(q, id) == {x \in q : x.id # id}

(***************************************************************************)
(* Initial state: empty store, empty FHIR server, first cycle about to     *)
(* start (main.py __main__).                                               *)
(***************************************************************************)
\* the tables as db.py and create_fhir_queue_table create them
EmptyStore ==
    [staging |-> [r \in Tables |-> {}], nextId |-> [r \in Tables |-> 1],
     fhir_queue |-> {}, queueSeq |-> 1]

\* the process at stage at, over the tables of store
InitAt(end_date, at, store) ==
    /\ pc = at
    /\ ri = 1
    /\ probes = 0
    /\ fetch_state = [r \in Tables |-> [present |-> FALSE, last |-> 0, next |-> 0]]
    /\ staging = store.staging
    /\ nextId = store.nextId
    /\ fhir_queue = store.fhir_queue
    /\ queueSeq = store.queueSeq
    /\ fhir = [k \in Tables \X (1..NumIdents + 1) |-> 0]
    /\ batch = {}
    /\ mapped = {}
    /\ rows = {}
    /\ cur = NoRow
    /\ step = "read"
    /\ attempt = 0
    /\ result = "none"
    /\ processed_in_cycle = FALSE
    /\ lastFetch = NoFetch
    /\ lastEnq = NoEnq
    /\ lastPub = NoPub
    /\ sentInvalid = {}
    /\ fetch_end_date = end_date
    /\ cycle = NoCycle

(***************************************************************************)
(* The file-based last-run store (utils/utils_state.py).  A text is the    *)
(* sequence of its characters; the state file holds a JSON object, here a  *)
(* function from the resource types it has to their texts.                 *)
(***************************************************************************)
NoFile == [exists |-> FALSE, state |-> <<>>]
File(state) == [exists |-> TRUE, state |-> state]
None == <<"None">>
NoCalls == [enabled |-> FALSE, set |-> <<>>, resource_type |-> "", returned |-> <<>>]

STATE_RESOURCES == {"Condition", "NewResource"}
RunTimes ==
    {[year |-> 2025, month |-> 1, day |-> 1, hour |-> 10, minute |-> 0, second |-> 0],
     [year |-> 2025, month |-> 11, day |-> 30, hour |-> 23, minute |-> 59, second |-> 7]}

\* n written with the given number of digits, zero-padded
Digits(n, width) ==
    [i \in 1..width |-> ToString((n \div Power(10, width - i)) % 10)]

\* the number a run of digits stands for
RECURSIVE Number(_)
Number(chars) ==
    IF chars = <<>> THEN 0
    ELSE Number(SubSeq(chars, 1, Len(chars) - 1)) * 10
         + (CHOOSE d \in 0..9 : ToString(d) = chars[Len(chars)])

\* datetime.strftime('%Y-%m-%d %H:%M:%S')
strftime(dt) ==
    Digits(dt.year, 4) \o <<"-">> \o Digits(dt.month, 2) \o <<"-">> \o Digits(dt.day, 2)
    \o <<" ">> \o Digits(dt.hour, 2) \o <<":">> \o Digits(dt.minute, 2)
    \o <<":">> \o Digits(dt.second, 2)

\* datetime.isoformat() of a time without microseconds: the same with a T
isoformat(dt) == [strftime(dt) EXCEPT ![11] = "T"]

\* datetime.fromisoformat of YYYY-MM-DD, one separator character, HH:MM:SS
fromisoformat(text) ==
    [year |-> Number(SubSeq(text, 1, 4)), month |-> Number(SubSeq(text, 6, 7)),
     day |-> Number(SubSeq(text, 9, 10)), hour |-> Number(SubSeq(text, 12, 13)),
     minute |-> Number(SubSeq(text, 15, 16)), second |-> Number(SubSeq(text, 18, 19))]

get_last_run_time(file, fetch_by_date_enabled, resource_type) ==
    IF fetch_by_date_enabled
    THEN strftime([year |-> 2025, month |-> 1, day |-> 8, hour |-> 0, minute |-> 0,
                   second |-> 0])
    ELSE IF ~file.exists THEN None
    ELSE IF resource_type \in DOMAIN file.state THEN file.state[resource_type]
    ELSE None

\* the same writing the file with the one resource type only
set_last_run_time_overwrites(file, resource_type, run_time) ==
    File([k \in {resource_type} |-> strftime(fromisoformat(run_time))])

set_last_run_time(file, resource_type, run_time) ==
    LET state == IF ~file.exists THEN <<>> ELSE file.state
        formatted_time == strftime(fromisoformat(run_time))
    IN  File([k \in DOMAIN state \cup {resource_type} |->
                 IF k = resource_type THEN formatted_time ELSE state[k]])

clear_last_run_time(file, resource_type) ==
    IF ~file.exists THEN file
    ELSE File([k \in DOMAIN file.state \ {resource_type} |-> file.state[k]])

(***************************************************************************)
(* The connection pool (utils/session.py) and the calls a thread makes on  *)
(* it.  The pool is psycopg2's SimpleConnectionPool: idle connections, the *)
(* connections checked out, at most MAXCONN of them, MINCONN kept idle.    *)
(***************************************************************************)
MINCONN == 1
MAXCONN == 2
MaxMade == 4

NoPool == [idle |-> <<>>, used |-> {}, closed |-> {}, made |-> 0]
\* polling.max_parallel_fetches, set to the scaled pool maximum
MAX_PARALLEL_FETCHES == 2
NoFetchThread == [todo |-> <<>>, held |-> <<>>, started |-> FALSE, failed |-> FALSE]
NoThread == [todo |-> <<>>, held |-> <<>>, last |-> "", was_held |-> 0, got_closed |-> FALSE]

\* a function that takes a connection, works on it and releases it in its
\* finally block
DbCall == <<"get", "release">>

\* openehr_query.py query_resource: the pool and HTTP calls of one fetch
query_resource_calls(status, records) ==
    <<"get">>
    \o (IF FETCH_BY_DATE_ENABLED THEN DbCall ELSE <<>>)
    \o <<"http">>
    \o (IF status = 200
        THEN (IF records > 0 THEN DbCall \o DbCall ELSE <<>>) \o DbCall
        ELSE <<>>)
    \o <<"release">>

\* resource.py poll_and_process_fhir: ensure_fhir_queue_table, then per pass a
\* read of the queue and, per row, the search, the write and the delete
RECURSIVE process_fhir_rows(_)
process_fhir_rows(n) ==
    IF n = 0 THEN <<>>
    ELSE <<"http", "http">> \o DbCall \o process_fhir_rows(n - 1)

poll_and_process_fhir_calls(n) ==
    DbCall \o (IF n = 0 THEN <<>> ELSE DbCall \o process_fhir_rows(n)) \o DbCall

\* pg_pool.getconn(): <<pool afterwards, connection or 0 when PoolError>>
getconn(pool) ==
    IF pool.idle # <<>>
    THEN LET conn == pool.idle[Len(pool.idle)]
         IN  <<[pool EXCEPT !.idle = SubSeq(@, 1, Len(@) - 1), !.used = @ \cup {conn}], conn>>
    ELSE IF Cardinality(pool.used) = MAXCONN THEN <<pool, 0>>
    ELSE <<[pool EXCEPT !.used = @ \cup {pool.made + 1}, !.made = @ + 1], pool.made + 1>>

\* pg_pool.putconn(conn); PoolError for a connection the pool did not hand out
putconn(pool, conn) ==
    IF conn \notin pool.used THEN pool
    ELSE IF Len(pool.idle) < MINCONN
    THEN [pool EXCEPT !.idle = Append(@, conn), !.used = @ \ {conn}]
    ELSE [pool EXCEPT !.closed = @ \cup {conn}, !.used = @ \ {conn}]

(***************************************************************************)
(* Priority-based fetching (conf/config.py, utils/openehr_query.py) and    *)
(* the fetches of alur_cycle (main.py) against the clock                   *)
(***************************************************************************)
PRIORITY_BASED_FETCHING == TRUE
\* priority_fetching.priority_levels: minutes per priority
PRIORITY_LEVELS == [priority \in {1, 2} |-> 2 * priority]
\* resource.get("priority", 1)
ResourcePriority(resource_name) == IF resource_name = "condition" THEN 2 ELSE 1
MaxNow == 8

NoClock == [now |-> 0, present |-> {}, at |-> 0, requested |-> "", below |-> FALSE]

\* the resources alur_cycle fetches, in its order: the standard ones in
\* RESOURCES order (STEP 1), then Consent (STEP 4)
FetchOrder ==
    SelectSeq(RESOURCES, LAMBDA r : r # "consent")
    \o SelectSeq(RESOURCES, LAMBDA r : r = "consent")

\* query_all_resources lines 149-157: the test under which it skips a resource
below_interval(now, present, resource_name) ==
    /\ PRIORITY_BASED_FETCHING
    /\ ResourcePriority(resource_name) \in DOMAIN PRIORITY_LEVELS
    /\ resource_name \in present
    /\ now - FETCH_START_DATE < PRIORITY_LEVELS[ResourcePriority(resource_name)]

\* the functions that are called on their own, except the one named, not
\* called
UnitsIdle(unit) ==
    /\ unit # "mapper" => (/\ row_data = NoData /\ yaml_mappings = NoData
                           /\ yaml_required = {} /\ fhir_resource = PyNone)
    /\ unit # "encryption" => aes_call = NoAes
    /\ unit # "state" => (state_file = NoFile /\ state_calls = NoCalls)
    /\ unit \notin {"session", "executor"} => pg_pool = NoPool
    /\ unit # "session" => db_thread = NoThread
    /\ unit # "executor"
       => fetch_threads = [t \in 0..MAX_PARALLEL_FETCHES |-> NoFetchThread]
    /\ unit # "clock" => fetch_cycle = NoClock
    /\ unit # "db" => pg_table = [exists |-> FALSE, columns |-> {}, rows |-> 0,
                                  keys |-> <<>>]

Init == InitAt(FETCH_END_DATE, "HealthCheck", EmptyStore) /\ UnitsIdle("")


consent_active == \E i \in 1..Len(RESOURCES) : RESOURCES[i] = "consent"

(***************************************************************************)
(* main.py alur_cycle: heartbeat, then STEP 1 (fetch the standard          *)
(* resources)                                                              *)
(***************************************************************************)
\* the order of the stages in alur_cycle and the loop of __main__
StageAfter(p) ==
    CASE p = "HealthCheck" -> "FetchStandard"
      [] p = "FetchStandard" -> "ProcessStandard"
      [] p = "ProcessStandard" -> "PublishStandard"
      [] p = "PublishStandard" -> IF consent_active THEN "FetchConsent" ELSE "Sleep"
      [] p = "FetchConsent" -> "ProcessConsent"
      [] p = "ProcessConsent" -> "PublishConsent"
      [] p = "PublishConsent" -> "Sleep"
      [] p = "Sleep" -> "HealthCheck"

\* an exception passed on instead of being logged: the rest of the cycle is lost
run_step_reraise(p) == "Sleep"

\* run_step lines 53-55: the exception of a stage is logged, None is returned
\* and alur_cycle goes on with its next statement
run_step_except(p) == StageAfter(p)

\* the cycle going on whatever the heartbeat step returned
after_heartbeat_ignored(ok) == "FetchStandard"

\* alur_cycle lines 66-68: a falsy result of the heartbeat step ends the cycle
after_heartbeat(ok) == IF ok THEN "FetchStandard" ELSE "Sleep"

\* alur_cycle's one heartbeat step: OPTIONS {EHR_SERVER_URL}/rest/v1/ehr.
\* "raised": the session set-up ahead of the probe loop (lines 35-41) raises,
\* run_step logs it and returns None.  A probe that is not answered 200/204 is
\* repeated; only a good probe returns True.
server_heartbeat_check ==
    /\ pc = "HealthCheck"
    /\ \E outcome \in {"true", "retry", "raised"} :
         CASE outcome = "true" ->
                /\ pc' = after_heartbeat(TRUE) /\ probes' = 0
                /\ cycle' = [heartbeat |-> "true", probed |-> {"ehr"}, raised |-> FALSE]
           [] outcome = "retry" ->
                /\ probes < MaxProbes /\ probes' = probes + 1 /\ pc' = pc
                /\ cycle' = NoCycle
           [] outcome = "raised" ->
                /\ probes = 0
                /\ pc' = after_heartbeat(FALSE) /\ probes' = 0
                /\ cycle' = [heartbeat |-> "raised", probed |-> {}, raised |-> FALSE]
    /\ UNCHANGED <<ri, dbVars, fhir, pubVars, lastFetch, lastEnq, lastPub, sentInvalid, fetch_end_date, unitVars>>

FetchStandard ==
    /\ pc = "FetchStandard"
    /\ IF RESOURCES[ri] = "consent"
       THEN lastFetch' = NoFetch /\ UNCHANGED <<fetch_state, staging, nextId>>
       ELSE \E status \in {200, 204, 500}, rs \in SeqsUpTo(Idents \cup {0}, MaxRows) :
              \E k \in 0..Len(rs) : query_resource(RESOURCES[ri], status, rs, k)
    /\ IF ri < Len(RESOURCES)
       THEN ri' = ri + 1 /\ pc' = pc
       ELSE ri' = 1 /\ pc' = "ProcessStandard"
    /\ UNCHANGED <<probes, cycle, fetch_end_date, unitVars, fhir_queue, queueSeq, fhir, pubVars, lastEnq, lastPub, sentInvalid>>

(***************************************************************************)
(* STEP 2: central_processor.main: process_resource per resource           *)
(***************************************************************************)
process_resource ==
    /\ pc = "ProcessStandard" /\ step = "read"
    /\ \E b \in (IF RESOURCES[ri] = "consent" THEN {{}}
                 ELSE IF USE_BATCH
                 THEN read_unprocessed_rows_in_batch(staging[RESOURCES[ri]], BATCH_SIZE)
                 ELSE read_unprocessed_rows(staging[RESOURCES[ri]])) :
         /\ batch' = b
         /\ IF b # {}
            THEN step' = "rows" /\ UNCHANGED <<pc, ri>>
            ELSE /\ step' = "read"
                 /\ IF ri < Len(RESOURCES)
                    THEN ri' = ri + 1 /\ pc' = pc
                    ELSE ri' = 1 /\ pc' = "PublishStandard"
    /\ lastFetch' = NoFetch
    /\ UNCHANGED <<probes, cycle, fetch_end_date, unitVars, dbVars, fhir, mapped, rows, cur, attempt, result,
                   processed_in_cycle, lastEnq, lastPub, sentInvalid>>

\* map the row; without a resource or an identifier skip it, else enqueue
process_single_row ==
    /\ pc = "ProcessStandard" /\ step = "rows"
    /\ \E row \in batch : \E resource \in MappedRows[row.ident] :
         LET r == RESOURCES[ri]
             \* fhir_resource.get("identifier", [{}])[0].get("value") if
             \* fhir_resource.get("identifier") else None
             identifiers == IF Truthy(resource) THEN Get(resource.v, "identifier")
                            ELSE PyNone
             identifier == IF Truthy(identifiers) THEN Get(identifiers.v[1].v, "value")
                           ELSE PyNone
             skip == ~Truthy(resource) \/ ~Truthy(identifier)
             \* the identifier of the model that prints as identifier.v
             ident == IF skip THEN 0
                      ELSE CHOOSE i \in Idents : ToString(i) = identifier.v
             q == IF skip THEN fhir_queue
                  ELSE insert_into_fhir_queue(fhir_queue, r, ident, row.id)
         IN /\ fhir_queue' = q
            /\ lastEnq' = [rtype |-> r, identifier |-> ident,
                           hit |-> \E x \in fhir_queue :
                                      x.rtype = r /\ x.identifier = ident,
                           same |-> (q = fhir_queue), nprov |-> 0, src |-> 1]
            /\ batch' = batch \ {row}
            /\ IF batch \ {row} # {}
               THEN UNCHANGED <<step, pc, ri>>
               ELSE /\ step' = "read"
                    /\ IF ri < Len(RESOURCES)
                       THEN ri' = ri + 1 /\ pc' = pc
                       ELSE ri' = 1 /\ pc' = "PublishStandard"
    /\ UNCHANGED <<probes, cycle, fetch_end_date, unitVars, fetch_state, staging, nextId, queueSeq, fhir, mapped, rows,
                   cur, attempt, result, processed_in_cycle, lastFetch,
                   lastPub, sentInvalid>>

(***************************************************************************)
(* STEP 3: utils/resource.py: the standard publisher                       *)
(***************************************************************************)
\* one pass of the while loop: read a batch; leave when it is empty
poll_and_process_fhir ==
    /\ pc = "PublishStandard" /\ step = "read"
    /\ \E b \in Limit(Unprocessed(fhir_queue), BATCH_SIZE) :
         /\ rows' = b
         /\ IF b # {}
            THEN step' = "send" /\ pc' = pc /\ lastPub' = lastPub
            ELSE /\ step' = "read"
                 /\ pc' = IF consent_active THEN "FetchConsent" ELSE "Sleep"
                 /\ lastPub' = NoPub
    /\ lastEnq' = NoEnq
    /\ cycle' = [cycle EXCEPT !.raised = FALSE]
    /\ UNCHANGED <<ri, probes, fetch_end_date, unitVars, dbVars, fhir, batch, mapped, cur, attempt, result,
                   processed_in_cycle, lastFetch, sentInvalid>>

\* a Consent row is skipped; any other row is sent
process_fhir_row ==
    /\ pc = "PublishStandard" /\ step = "send"
    /\ \E row \in rows :
         /\ rows' = rows \ {row}
         /\ IF row.rtype = "consent"
            THEN /\ step' = IF rows \ {row} = {} THEN "read" ELSE "send"
                 /\ UNCHANGED <<cur, result, fhir, lastPub>>
            ELSE \E so \in SearchStatuses, ws \in WriteStatuses : \E ap \in Applied(ws) :
                   LET o == send_fhir_resource(row.rtype, row.identifier, so, ws, ap)
                       k == <<row.rtype, row.identifier>>
                   IN /\ o.created => fhir[k] < MaxCopies
                      /\ fhir' = IF o.created THEN [fhir EXCEPT ![k] = @ + 1] ELSE fhir
                      /\ cur' = row
                      /\ result' = o.result
                      /\ step' = "mark"
                      /\ lastPub' = [rtype |-> row.rtype,
                                     identifier |-> row.identifier,
                           found |-> (o.search = 200 /\ o.before > 0),
                           verb |-> o.verb,
                                     status |-> o.status,
                                     writes |-> IF o.verb = "" THEN 0 ELSE 1,
                                     result |-> o.result, resent |-> FALSE,
                                     done |-> FALSE]
    /\ UNCHANGED <<pc, ri, probes, cycle, fetch_end_date, unitVars, dbVars, batch, mapped, attempt, processed_in_cycle,
                   lastFetch, lastEnq, sentInvalid>>

\* called for every result of send_fhir_resource (lines 120-124); three
\* statements, each committed on its own
mark_as_processed_and_delete ==
    /\ pc = "PublishStandard" /\ step \in {"mark", "del_q", "del_s"}
    /\ CASE step = "mark" ->
              /\ fhir_queue' = MarkQueue(fhir_queue, cur.id)
              /\ step' = "del_q"
              /\ UNCHANGED <<staging, cur, result, lastPub>>
         [] step = "del_q" ->
              /\ fhir_queue' = DeleteQueue(fhir_queue, cur.id)
              /\ step' = "del_s"
              /\ UNCHANGED <<staging, cur, result, lastPub>>
         [] step = "del_s" ->
              /\ staging' = [staging EXCEPT ![cur.rtype] = {x \in @ : x.id # cur.id}]
              /\ step' = IF rows = {} THEN "read" ELSE "send"
              /\ cur' = NoRow
              /\ result' = "none"
              /\ lastPub' = [lastPub EXCEPT !.done = TRUE]
              /\ UNCHANGED fhir_queue
    /\ UNCHANGED <<pc, ri, probes, cycle, fetch_end_date, unitVars, fetch_state, nextId, queueSeq, fhir, batch, mapped,
                   rows, attempt, processed_in_cycle, lastFetch, lastEnq,
                   sentInvalid>>

(***************************************************************************)
(* STEP 4: Consent: fetch, group and enqueue, publish                      *)
(***************************************************************************)
FetchConsent ==
    /\ pc = "FetchConsent"
    /\ \E status \in {200, 204, 500}, rs \in SeqsUpTo(Idents \cup {0, NULL_KEY}, MaxRows) :
         \E k \in 0..Len(rs) : query_resource("consent", status, rs, k)
    /\ pc' = "ProcessConsent"
    /\ cycle' = [cycle EXCEPT !.raised = FALSE]
    /\ UNCHANGED <<ri, probes, fetch_end_date, unitVars, fhir_queue, queueSeq, fhir, pubVars, lastEnq, lastPub,
                   sentInvalid>>

\* read the batch, group it, map the groups; an exception of the grouping is
\* logged by lines 122-123 and ends the pass
process_consent_resources ==
    /\ pc = "ProcessConsent" /\ step = "read"
    /\ \E b \in (IF USE_BATCH
                 THEN read_unprocessed_consents_in_batch(staging["consent"], BATCH_SIZE)
                 ELSE read_unprocessed_consents(staging["consent"])) :
         LET mapped_resources == IF group_provisions_raises(b) THEN {}
                                 ELSE map_consent_resources(group_provisions(b))
         IN /\ mapped' = mapped_resources
            /\ IF mapped_resources # {}
               THEN step' = "rows" /\ pc' = pc /\ batch' = b
               ELSE step' = "read" /\ pc' = "PublishConsent" /\ batch' = {}
    /\ lastFetch' = NoFetch
    /\ UNCHANGED <<ri, probes, cycle, fetch_end_date, unitVars, dbVars, fhir, rows, cur, attempt, result,
                   processed_in_cycle, lastEnq, lastPub, sentInvalid>>

\* the loop body of lines 111-118: enqueue the resource, then mark the
\* staging rows of its composition_id, whatever the insert did
enqueue_consent ==
    /\ pc = "ProcessConsent" /\ step = "rows"
    /\ LET resource == CHOOSE m \in mapped : \A o \in mapped : m.id <= o.id
           q == insert_into_fhir_queue_consent(fhir_queue, "consent", resource.id,
                                               resource.nprov, queueSeq)
       IN /\ fhir_queue' = q
          /\ queueSeq' = queueSeq + 1
          /\ staging' = [staging EXCEPT !["consent"] =
                            mark_consent_as_processed_by_composition(@, resource.id)]
          /\ lastEnq' = [rtype |-> "consent", identifier |-> resource.id,
                         hit |-> \E x \in fhir_queue :
                                    x.rtype = "consent" /\ x.identifier = resource.id,
                         same |-> (q = fhir_queue), nprov |-> resource.nprov,
                         src |-> Cardinality({x \in Unprocessed(staging["consent"]) :
                                                 x.ident = resource.id})]
          /\ mapped' = mapped \ {resource}
          /\ IF mapped \ {resource} # {}
             THEN UNCHANGED <<step, pc, batch>>
             ELSE step' = "read" /\ pc' = "PublishConsent" /\ batch' = {}
    /\ UNCHANGED <<ri, probes, cycle, fetch_end_date, unitVars, fetch_state, nextId, fhir, rows, cur, attempt,
                   result, processed_in_cycle, lastFetch, lastPub, sentInvalid>>

(***************************************************************************)
(* utils/resource_consent.py: the Consent publisher                        *)
(***************************************************************************)
\* one pass of the outer while loop: read a batch of Consent rows
poll_and_process_fhir_consent ==
    /\ pc = "PublishConsent" /\ step = "read"
    /\ \E b \in Limit({x \in Unprocessed(fhir_queue) : x.rtype = "consent"}, BATCH_SIZE) :
         /\ rows' = b
         /\ IF b # {}
            THEN step' = "send" /\ pc' = pc
            ELSE step' = "read" /\ pc' = "Sleep"
    /\ processed_in_cycle' = FALSE
    /\ lastEnq' = NoEnq
    /\ cycle' = [cycle EXCEPT !.raised = FALSE]
    /\ UNCHANGED <<ri, probes, fetch_end_date, unitVars, dbVars, fhir, batch, mapped, cur, attempt, result,
                   lastFetch, lastPub, sentInvalid>>

\* the loop without the break of lines 168-169
AfterConsentRow_no_break(left, published) ==
    IF left # {} THEN step' = "send" /\ pc' = pc
    ELSE step' = "read" /\ pc' = pc

\* after a row of the batch: next row, or (lines 166-169) the next pass if
\* some row of this pass was published, else leave
AfterConsentRow(left, published) ==
    IF left # {} THEN step' = "send" /\ pc' = pc
    ELSE IF published THEN step' = "read" /\ pc' = pc
    ELSE step' = "read" /\ pc' = "Sleep"

\* one pass of the loop of send_fhir_consent for the row in hand (or the
\* next row of the batch), and the branch of lines 153-162 on its result
process_consent_row ==
    /\ pc = "PublishConsent" /\ step = "send"
    /\ \E row \in (IF cur = NoRow THEN rows ELSE {cur}) :
       \E so \in SearchStatuses, ws \in WriteStatuses : \E ap \in Applied(ws) :
         LET first == (cur = NoRow)
             att == IF first THEN 0 ELSE attempt
             o == send_fhir_consent(row.identifier, so, ws, ap)
             k == <<"consent", row.identifier>>
             left == rows \ {row}
             giveUp == ~QUERY_RETRIES_ENABLED \/ att + 1 >= QUERY_RETRY_COUNT
             res == IF o.result # "raised" THEN o.result
                    ELSE IF giveUp THEN "false" ELSE "retry"
         IN /\ o.created => fhir[k] < MaxCopies
            /\ fhir' = IF o.created THEN [fhir EXCEPT ![k] = @ + 1] ELSE fhir
            /\ rows' = left
            /\ lastPub' = [rtype |-> "consent",
                           identifier |-> row.identifier,
                           found |-> (o.search = 200 /\ o.before > 0),
                           verb |-> o.verb,
                           status |-> o.status,
                           writes |-> (IF first THEN 0 ELSE lastPub.writes)
                                      + (IF o.verb = "" THEN 0 ELSE 1),
                           result |-> res,
                           resent |-> IF first THEN row.identifier \in sentInvalid
                                      ELSE lastPub.resent,
                           done |-> (res \in {"invalid", "false"})]
            /\ CASE res = "true" ->
                      /\ cur' = row /\ attempt' = att /\ result' = "true"
                      /\ step' = "mark" /\ pc' = pc
                      /\ UNCHANGED sentInvalid
                 [] res = "retry" ->
                      /\ cur' = row /\ attempt' = att + 1 /\ result' = "none"
                      /\ step' = "send" /\ pc' = pc
                      /\ UNCHANGED sentInvalid
                 [] OTHER ->
                      /\ cur' = NoRow /\ attempt' = 0 /\ result' = "none"
                      /\ sentInvalid' = IF res = "invalid"
                                        THEN sentInvalid \cup {row.identifier}
                                        ELSE sentInvalid
                      /\ AfterConsentRow(left, processed_in_cycle)
    /\ UNCHANGED <<ri, probes, cycle, fetch_end_date, unitVars, dbVars, batch, mapped, processed_in_cycle, lastFetch, lastEnq>>

\* called on result True only: two statements on fhir_queue, then
\* delete_consent_by_group on its own connection
mark_consent_as_processed_and_delete ==
    /\ pc = "PublishConsent" /\ step \in {"mark", "del_q", "del_s"}
    /\ CASE step = "mark" ->
              /\ fhir_queue' = MarkQueue(fhir_queue, cur.id)
              /\ step' = "del_q" /\ pc' = pc
              /\ UNCHANGED <<staging, cur, result, lastPub, processed_in_cycle>>
         [] step = "del_q" ->
              /\ fhir_queue' = DeleteQueue(fhir_queue, cur.id)
              /\ step' = "del_s" /\ pc' = pc
              /\ UNCHANGED <<staging, cur, result, lastPub, processed_in_cycle>>
         [] step = "del_s" ->
              /\ staging' = [staging EXCEPT !["consent"] =
                                delete_consent_by_group(@, cur.identifier)]
              /\ processed_in_cycle' = TRUE
              /\ cur' = NoRow
              /\ result' = "none"
              /\ lastPub' = [lastPub EXCEPT !.done = TRUE]
              /\ AfterConsentRow(rows, TRUE)
              /\ UNCHANGED fhir_queue
    /\ UNCHANGED <<ri, probes, cycle, fetch_end_date, unitVars, fetch_state, nextId, queueSeq, fhir, batch, mapped,
                   rows, attempt, lastFetch, lastEnq, sentInvalid>>

(***************************************************************************)
(* A stage function raises.  The exceptions that leave a stage are those   *)
(* of get_db_connection called outside a try block: in                      *)
(* create_fhir_queue_table / ensure_fhir_queue_table at the start of a      *)
(* stage, at the top of a publisher's while loop, and at the start of       *)
(* mark_as_processed_and_delete / mark_consent_as_processed_and_delete.     *)
(* query_resource catches everything.  The stage's local state is lost.    *)
(***************************************************************************)
run_step_raises ==
    /\ pc \in {"ProcessStandard", "PublishStandard", "ProcessConsent", "PublishConsent"}
    /\ \/ step = "read" /\ (pc = "ProcessStandard" => ri = 1)
       \/ step = "mark" /\ pc \in {"PublishStandard", "PublishConsent"}
    /\ pc' = run_step_except(pc)
    /\ ri' = 1
    /\ batch' = {} /\ mapped' = {} /\ rows' = {} /\ cur' = NoRow /\ step' = "read"
    /\ attempt' = 0 /\ result' = "none" /\ processed_in_cycle' = FALSE
    /\ lastFetch' = NoFetch /\ lastEnq' = NoEnq /\ lastPub' = NoPub
    /\ cycle' = [cycle EXCEPT !.raised = TRUE]
    /\ UNCHANGED <<probes, fetch_end_date, unitVars, dbVars, fhir, sentInvalid>>

(***************************************************************************)
(* main.py __main__: sleep between cycles; a crash or kill of the process  *)
(* at any point, followed by a restart                                     *)
(***************************************************************************)
Sleep ==
    /\ pc = "Sleep"
    /\ pc' = "HealthCheck"
    /\ lastPub' = NoPub
    /\ sentInvalid' = {}
    /\ cycle' = NoCycle
    /\ UNCHANGED <<ri, probes, fetch_end_date, unitVars, dbVars, fhir, pubVars, lastFetch, lastEnq>>

Crash ==
    /\ pc # "HealthCheck"
    /\ pc' = "HealthCheck"
    /\ ri' = 1
    /\ probes' = 0
    /\ batch' = {} /\ mapped' = {} /\ rows' = {} /\ cur' = NoRow /\ step' = "read"
    /\ attempt' = 0 /\ result' = "none" /\ processed_in_cycle' = FALSE
    /\ lastFetch' = NoFetch /\ lastEnq' = NoEnq /\ lastPub' = NoPub /\ sentInvalid' = {}
    /\ cycle' = NoCycle
    /\ UNCHANGED <<dbVars, fhir, fetch_end_date, unitVars>>

Step ==
    \/ server_heartbeat_check
    \/ FetchStandard
    \/ process_resource
    \/ process_single_row
    \/ poll_and_process_fhir
    \/ process_fhir_row
    \/ mark_as_processed_and_delete
    \/ FetchConsent
    \/ process_consent_resources
    \/ enqueue_consent
    \/ poll_and_process_fhir_consent
    \/ process_consent_row
    \/ mark_consent_as_processed_and_delete
    \/ run_step_raises
    \/ Sleep

Next == Step \/ Crash

Spec == Init /\ [][Next]_vars

\* the process keeps running while it is not killed
FairSpec == Init /\ [][Next]_vars /\ WF_vars(Step)

\* the pipeline configured with the short end_date
\* the same start with end_date = start_date + 5 h
WindowSpec ==
    /\ InitAt(FETCH_END_DATE_SHORT, "HealthCheck", EmptyStore) /\ UnitsIdle("")
    /\ [][Next]_vars

(***************************************************************************)
(* The process started over tables that earlier runs have filled: every    *)
(* sequence stands past the ids it has handed out, so the fetches of these *)
(* runs bring no rows.  The store holds either condition rows (some        *)
(* without an identifier, then one with) or Consents: the queued ones,      *)
(* whose staging rows are marked, and one staged that is not queued yet.    *)
(***************************************************************************)
MaxStoredId == 3

BacklogSpec ==
    /\ \E rs \in SeqsUpTo({0, 1}, MaxStoredId),
          consents \in {1..n : n \in 0..MaxStoredId} :
       \E staged \in SUBSET ({MaxStoredId} \ consents) :
         /\ \A i \in 1..Len(rs) : rs[i] = 1 <=> i = Len(rs)
         /\ rs = <<>> \/ (consents = {} /\ staged = {})
         /\ InitAt(FETCH_END_DATE, "HealthCheck",
                   [staging |-> [r \in Tables |->
                                    IF r = "consent"
                                    THEN {[id |-> i, ident |-> i,
                                           processed |-> i \in consents] :
                                             i \in consents \cup staged}
                                    ELSE store_records_in_db({}, 1, rs, Len(rs))],
                    nextId |-> [r \in Tables |-> MaxStoredId + 1],
                    fhir_queue |-> {[id |-> i, rtype |-> "consent", identifier |-> i,
                                     nprov |-> 1, processed |-> FALSE] : i \in consents},
                    queueSeq |-> MaxStoredId + 1])
    /\ UnitsIdle("")
    /\ [][Step]_vars
    /\ WF_vars(Step)

(***************************************************************************)
(* poll_and_process_fhir_consent called on a queue that holds any of three *)
(* Consents and a condition, up to its return.                             *)
(***************************************************************************)
ConsentPublisherSpec ==
    /\ \E consents \in SUBSET (1..MaxStoredId), others \in SUBSET {MaxStoredId + 1} :
         InitAt(FETCH_END_DATE, "PublishConsent",
                [staging |-> [r \in Tables |->
                                 IF r = "consent"
                                 THEN {[id |-> i, ident |-> i, processed |-> TRUE] :
                                          i \in consents}
                                 ELSE {[id |-> i, ident |-> 1, processed |-> FALSE] :
                                          i \in others}],
                 nextId |-> [r \in Tables |-> MaxStoredId + 2],
                 fhir_queue |-> {[id |-> i, rtype |-> "consent", identifier |-> i,
                                  nprov |-> 1, processed |-> FALSE] : i \in consents}
                                \cup {[id |-> i, rtype |-> "condition", identifier |-> 1,
                                       nprov |-> 0, processed |-> FALSE] : i \in others},
                 queueSeq |-> MaxStoredId + 2])
    /\ UnitsIdle("")
    /\ [][\/ poll_and_process_fhir_consent
          \/ process_consent_row
          \/ mark_consent_as_processed_and_delete
          \/ run_step_raises]_vars
    /\ WF_vars(\/ poll_and_process_fhir_consent
               \/ process_consent_row
               \/ mark_consent_as_processed_and_delete)

(***************************************************************************)
(* The mapper called on its own, as tests/test_utils_mapping.py calls it:  *)
(* every row and every template of the sets below.                         *)
(***************************************************************************)
\* template strings: a placeholder, a constant, text around a placeholder,
\* the empty string
TplLeaves ==
    {Tpl(<<Var("c")>>), Tpl(<<Var("d")>>), Tpl(<<Lit("final")>>),
     Tpl(<<Lit("Patient/"), Var("c")>>), Tpl(<<>>)}

\* nested maps and lists of template strings, depth levels deep
RECURSIVE Templates(_)
Templates(depth) ==
    IF depth = 0 THEN TplLeaves
    ELSE LET sub == Templates(depth - 1)
         IN sub \cup {EmptyDict, List(<<>>)}
                \cup {List(<<x>>) : x \in sub}
                \cup {List(<<x, y>>) : x \in sub, y \in TplLeaves}
                \cup {Dict([a |-> x]) : x \in sub}
                \cup {Dict([a |-> x, b |-> y]) : x \in sub, y \in TplLeaves}

IdentifierTpl == List(<<Dict([value |-> Tpl(<<Var("Composition_ID")>>)])>>)

CodingTpls ==
    {Dict([coding |-> List(<<Dict([system |-> s, code |-> x])>>)]) :
        s \in {Tpl(<<Lit("LOINC")>>), Tpl(<<Var("d")>>)}, x \in TplLeaves}

pipeVars == <<pc, ri, probes, dbVars, fhir, pubVars, lastFetch, lastEnq, lastPub, sentInvalid, cycle, fetch_end_date>>

call_map_and_clean_resource ==
    /\ fhir_resource.t = "none"
    /\ fhir_resource' = map_and_clean_resource(row_data, yaml_mappings, yaml_required)
    /\ UNCHANGED <<pipeVars, row_data, yaml_mappings, yaml_required, aes_call, stateVars, poolVars, fetch_cycle, pg_table>>

\* a row of three columns; the "mappings" of a resource file: top-level
\* field -> template
MapSpec ==
    /\ InitAt(FETCH_END_DATE, "HealthCheck", EmptyStore)
    /\ UnitsIdle("mapper")
    /\ row_data \in
         {[Composition_ID |-> Str("1"), c |-> c, d |-> d] :
             c \in TextEmpties \cup {Str("A01"), Str("2020-01-01T00:00:00.000000"),
                                     Str("2020-01-01T00:00:00")},
             d \in {PyNone, Str("example.org/cs")}}
    /\ yaml_mappings \in
         {[identifier |-> IdentifierTpl, section |-> x] : x \in Templates(MaxDepth)}
         \cup {[code |-> x] : x \in CodingTpls}
         \cup {[identifier |-> IdentifierTpl, category |-> List(<<x>>)] : x \in CodingTpls}
         \cup {[identifier |-> IdentifierTpl, recordedDate |-> x] :
                  x \in {Tpl(<<Var("c")>>), Tpl(<<Var("d")>>)}}
    /\ yaml_required \in {{}, {"Composition_ID", "c"}}
    /\ fhir_resource = PyNone
    /\ [][call_map_and_clean_resource]_vars

(***************************************************************************)
(* The encryption functions called on their own                            *)
(***************************************************************************)
call_aes_encrypt ==
    /\ aes_call.step \in {"new", "encrypted"}
    /\ aes_call' = IF aes_call.step = "new"
                   THEN [aes_call EXCEPT !.step = "encrypted",
                           !.ciphertext = aes_encrypt(aes_call.plaintext, aes_call.aes_key)]
                   ELSE [aes_call EXCEPT !.step = "again",
                           !.again = aes_encrypt(aes_call.plaintext, aes_call.aes_key)]
    /\ UNCHANGED <<pipeVars, mapVars, stateVars, poolVars, fetch_cycle, pg_table>>

call_aes_decrypt ==
    /\ aes_call.step = "again"
    /\ aes_call' = [aes_call EXCEPT !.step = "decrypted",
                      !.decrypted = aes_decrypt(aes_call.ciphertext, aes_call.aes_key,
                                                aes_call.plaintext)]
    /\ UNCHANGED <<pipeVars, mapVars, stateVars, poolVars, fetch_cycle, pg_table>>

CryptSpec ==
    /\ InitAt(FETCH_END_DATE, "HealthCheck", EmptyStore)
    /\ UnitsIdle("encryption")
    /\ aes_call \in {[NoAes EXCEPT !.step = "new", !.plaintext = x, !.aes_key = k] :
                        x \in {[t |-> "str", v |-> chars] :
                                  chars \in SeqsUpTo(0..(BYTE_VALUES - 1), MaxPlainLen)},
                        k \in 0..(NumKeys - 1)}
    /\ [][call_aes_encrypt \/ call_aes_decrypt]_vars

(***************************************************************************)
(* The state functions called on their own, as tests/test_utils_state.py   *)
(* calls them                                                              *)
(***************************************************************************)
call_set_last_run_time ==
    \* the run times a caller passes: strftime's form and isoformat's
    \E resource_type \in STATE_RESOURCES,
       run_time \in {strftime(dt) : dt \in RunTimes} \cup {isoformat(dt) : dt \in RunTimes} :
        /\ state_file' = set_last_run_time(state_file, resource_type, run_time)
        /\ state_calls' = [state_calls EXCEPT
               !.set = [k \in DOMAIN @ \cup {resource_type} |->
                           IF k = resource_type THEN run_time ELSE @[k]],
               !.resource_type = "", !.returned = <<>>]
        /\ UNCHANGED <<pipeVars, mapVars, aes_call, poolVars, fetch_cycle, pg_table>>

call_clear_last_run_time ==
    \E resource_type \in STATE_RESOURCES :
        /\ state_file' = clear_last_run_time(state_file, resource_type)
        /\ state_calls' = [state_calls EXCEPT
               !.set = [k \in DOMAIN @ \ {resource_type} |-> @[k]],
               !.resource_type = "", !.returned = <<>>]
        /\ UNCHANGED <<pipeVars, mapVars, aes_call, poolVars, fetch_cycle, pg_table>>

call_get_last_run_time ==
    \E resource_type \in STATE_RESOURCES :
        /\ state_calls' = [state_calls EXCEPT
               !.resource_type = resource_type,
               !.returned = get_last_run_time(state_file, state_calls.enabled, resource_type)]
        /\ UNCHANGED <<pipeVars, mapVars, aes_call, poolVars, fetch_cycle, state_file, pg_table>>

cleanup_test_state_file ==
    /\ state_file.exists
    /\ state_file' = NoFile
    /\ state_calls' = [state_calls EXCEPT !.set = <<>>, !.resource_type = "", !.returned = <<>>]
    /\ UNCHANGED <<pipeVars, mapVars, aes_call, poolVars, fetch_cycle, pg_table>>

StateSpec ==
    /\ InitAt(FETCH_END_DATE, "HealthCheck", EmptyStore)
    /\ UnitsIdle("state")
    /\ state_file = NoFile
    /\ state_calls \in {[NoCalls EXCEPT !.enabled = e] : e \in BOOLEAN}
    /\ [][\/ call_set_last_run_time
        \/ call_clear_last_run_time
        \/ call_get_last_run_time
        \/ cleanup_test_state_file]_vars

(***************************************************************************)
(* A thread making the pool and HTTP calls of one operation after another  *)
(***************************************************************************)
start_operation ==
    /\ db_thread.todo = <<>>
    /\ \E calls \in {query_resource_calls(status, records) :
                        status \in {200, 204, 500}, records \in 0..1}
                    \cup {poll_and_process_fhir_calls(n) : n \in 0..1} :
         db_thread' = [todo |-> calls, held |-> <<>>, last |-> "", was_held |-> 0,
                       got_closed |-> FALSE]
    /\ UNCHANGED <<pipeVars, mapVars, aes_call, stateVars, fetch_cycle, pg_pool, pg_table, fetch_threads>>

\* an exception leaves through the finally block of every function that
\* holds a connection
Unwind(held) == [i \in 1..Len(held) |-> "release"]

get_db_connection ==
    /\ db_thread.todo # <<>> /\ Head(db_thread.todo) = "get"
    /\ LET got == getconn(pg_pool)
           pool == got[1]
           conn == got[2]
           history == [db_thread EXCEPT !.last = "get", !.was_held = Len(db_thread.held)]
       IN  IF conn = 0
           THEN /\ pg_pool' = pool
                /\ db_thread' = [history EXCEPT !.todo = Unwind(db_thread.held),
                                                !.last = "raised"]
           ELSE IF conn \in pool.closed
           THEN \/ /\ pool.made < MaxMade
                   /\ pg_pool' = [pool EXCEPT !.made = @ + 1]
                   /\ db_thread' = [history EXCEPT !.todo = Tail(@),
                                      !.held = Append(@, pool.made + 1),
                                      !.got_closed = (pool.made + 1) \in pool.closed]
                \/ /\ pg_pool' = pool
                   /\ db_thread' = [history EXCEPT !.todo = Unwind(db_thread.held),
                                                   !.last = "raised"]
           ELSE /\ pool.made <= MaxMade
                /\ pg_pool' = pool
                /\ db_thread' = [history EXCEPT !.todo = Tail(@),
                                   !.held = Append(@, conn),
                                   !.got_closed = conn \in pool.closed]
    /\ UNCHANGED <<pipeVars, mapVars, aes_call, stateVars, fetch_cycle, pg_table, fetch_threads>>

release_db_connection ==
    /\ db_thread.todo # <<>> /\ Head(db_thread.todo) = "release"
    /\ LET conn == db_thread.held[Len(db_thread.held)]
       IN  /\ pg_pool' = IF conn \notin pg_pool.closed THEN putconn(pg_pool, conn)
                         ELSE pg_pool
           /\ db_thread' = [db_thread EXCEPT !.todo = Tail(@),
                              !.held = SubSeq(@, 1, Len(@) - 1),
                              !.last = "release", !.was_held = Len(db_thread.held)]
    /\ UNCHANGED <<pipeVars, mapVars, aes_call, stateVars, fetch_cycle, pg_table, fetch_threads>>

http_call ==
    /\ db_thread.todo # <<>> /\ Head(db_thread.todo) = "http"
    /\ db_thread' = [db_thread EXCEPT !.todo = Tail(@), !.last = "http",
                                      !.was_held = Len(db_thread.held)]
    /\ UNCHANGED <<pipeVars, mapVars, aes_call, stateVars, fetch_cycle, pg_pool, pg_table, fetch_threads>>

\* the server or the network ends a connection
connection_closes ==
    /\ \E conn \in ({pg_pool.idle[i] : i \in 1..Len(pg_pool.idle)}
                    \cup {db_thread.held[i] : i \in 1..Len(db_thread.held)})
                   \ pg_pool.closed :
         pg_pool' = [pg_pool EXCEPT !.closed = @ \cup {conn}]
    /\ UNCHANGED <<pipeVars, mapVars, aes_call, stateVars, fetch_cycle, db_thread, pg_table, fetch_threads>>

PoolSpec ==
    /\ InitAt(FETCH_END_DATE, "HealthCheck", EmptyStore)
    /\ UnitsIdle("session")
    /\ pg_pool = [NoPool EXCEPT !.idle = <<1>>, !.made = MINCONN]
    /\ db_thread = NoThread
    /\ [][\/ start_operation
        \/ get_db_connection
        \/ release_db_connection
        \/ http_call
        \/ connection_closes]_vars

(***************************************************************************)
(* utils/openehr_query.py query_all_resources: one resource per worker of  *)
(* the executor.  Its own thread reads the fetch_state of each resource    *)
(* (priority-based fetching) and submits the fetch unless the resource is  *)
(* skipped; a worker runs query_resource.  All threads share pg_pool.      *)
(***************************************************************************)
query_all_resources ==
    /\ \A t \in DOMAIN fetch_threads : fetch_threads[t].todo = <<>>
    /\ \E skipped \in SUBSET (1..MAX_PARALLEL_FETCHES) :
         LET RECURSIVE loop(_)
             loop(i) ==
                 IF i > MAX_PARALLEL_FETCHES THEN <<>>
                 ELSE (IF PRIORITY_BASED_FETCHING THEN DbCall ELSE <<>>)
                      \o (IF i \in skipped THEN <<>> ELSE <<"submit">>)
                      \o loop(i + 1)
         IN /\ ~PRIORITY_BASED_FETCHING => skipped = {}
            /\ fetch_threads' = [t \in DOMAIN fetch_threads |->
                                    IF t = 0
                                    THEN [NoFetchThread EXCEPT !.todo = loop(1),
                                                               !.started = TRUE]
                                    ELSE NoFetchThread]
    /\ UNCHANGED <<pipeVars, mapVars, aes_call, stateVars, fetch_cycle, pg_pool, db_thread, pg_table>>

\* executor.submit(query_resource, resource_name): a worker that has not run
\* in this call starts the fetch
executor_submit ==
    /\ fetch_threads[0].todo # <<>> /\ Head(fetch_threads[0].todo) = "submit"
    /\ \E status \in {200, 204, 500}, records \in 0..1 :
         LET worker == CHOOSE t \in 1..MAX_PARALLEL_FETCHES :
                          /\ ~fetch_threads[t].started
                          /\ \A u \in 1..(t - 1) : fetch_threads[u].started
         IN fetch_threads' = [fetch_threads EXCEPT
                                 ![0].todo = Tail(@),
                                 ![worker] = [NoFetchThread EXCEPT
                                                 !.todo = query_resource_calls(status, records),
                                                 !.started = TRUE]]
    /\ UNCHANGED <<pipeVars, mapVars, aes_call, stateVars, fetch_cycle, pg_pool, db_thread, pg_table>>

\* the next pool or HTTP call of a thread.  get_db_connection logs and
\* re-raises the PoolError of getconn: it leaves get_fetch_state,
\* store_records_in_db or update_fetch_state, whose call of it stands outside
\* their try blocks, and ends the fetch in the except branch of query_resource
\* (line 135) or, in thread 0, ends query_all_resources.
thread_call ==
    /\ \E t \in DOMAIN fetch_threads :
         LET thread == fetch_threads[t]
             got == getconn(pg_pool)
         IN /\ thread.todo # <<>> /\ Head(thread.todo) # "submit"
            /\ CASE Head(thread.todo) = "get" ->
                      IF got[2] = 0
                      THEN /\ pg_pool' = got[1]
                           /\ fetch_threads' = [fetch_threads EXCEPT
                                                   ![t].todo = Unwind(thread.held),
                                                   ![t].failed = TRUE]
                      ELSE /\ got[1].made <= MaxMade
                           /\ pg_pool' = got[1]
                           /\ fetch_threads' = [fetch_threads EXCEPT
                                                   ![t].todo = Tail(@),
                                                   ![t].held = Append(@, got[2])]
                 [] Head(thread.todo) = "release" ->
                      /\ pg_pool' = putconn(pg_pool, thread.held[Len(thread.held)])
                      /\ fetch_threads' = [fetch_threads EXCEPT
                                              ![t].todo = Tail(@),
                                              ![t].held = SubSeq(@, 1, Len(@) - 1)]
                 [] Head(thread.todo) = "http" ->
                      /\ fetch_threads' = [fetch_threads EXCEPT ![t].todo = Tail(@)]
                      /\ UNCHANGED pg_pool
    /\ UNCHANGED <<pipeVars, mapVars, aes_call, stateVars, fetch_cycle, db_thread, pg_table>>

ExecutorSpec ==
    /\ InitAt(FETCH_END_DATE, "HealthCheck", EmptyStore)
    /\ UnitsIdle("executor")
    /\ pg_pool = [NoPool EXCEPT !.idle = <<1>>, !.made = MINCONN]
    /\ fetch_threads = [t \in 0..MAX_PARALLEL_FETCHES |-> NoFetchThread]
    /\ [][\/ query_all_resources
          \/ executor_submit
          \/ thread_call]_vars

(***************************************************************************)
(* alur_cycle's fetches, cycle after cycle, POLL_INTERVAL apart            *)
(***************************************************************************)
\* run_step(..., query_resource, resource_name): the AQL request is sent; an
\* HTTP 200 writes the fetch_state row, whose last_run_time is the window start
alur_cycle_query_resource ==
    /\ fetch_cycle.at \in 1..Len(FetchOrder)
    /\ LET resource_name == FetchOrder[fetch_cycle.at]
       IN  \E status \in {200, 204, 500} :
             fetch_cycle' = [fetch_cycle EXCEPT
                 !.present = IF status = 200 THEN @ \cup {resource_name} ELSE @,
                 !.at = @ + 1,
                 !.requested = resource_name,
                 !.below = below_interval(fetch_cycle.now, fetch_cycle.present, resource_name)]
    /\ UNCHANGED <<pipeVars, mapVars, aes_call, stateVars, poolVars, pg_table>>

\* __main__: time.sleep(POLL_INTERVAL) between two cycles (the clock counts
\* in units of the poll interval)
alur_cycle_sleep ==
    /\ fetch_cycle.at = Len(FetchOrder) + 1
    /\ fetch_cycle.now + POLL_INTERVAL <= MaxNow
    /\ fetch_cycle' = [fetch_cycle EXCEPT !.now = @ + POLL_INTERVAL, !.at = 1,
                                          !.requested = "", !.below = FALSE]
    /\ UNCHANGED <<pipeVars, mapVars, aes_call, stateVars, poolVars, pg_table>>

ClockSpec ==
    /\ InitAt(FETCH_END_DATE, "HealthCheck", EmptyStore)
    /\ UnitsIdle("clock")
    /\ fetch_cycle = [NoClock EXCEPT !.now = FETCH_START_DATE, !.at = 1]
    /\ [][alur_cycle_query_resource \/ alur_cycle_sleep]_vars

(***************************************************************************)
(* utils/db.py: the columns of a staging table.  A table is the set of its *)
(* column names and the number of its rows.  PostgreSQL rejects a CREATE   *)
(* TABLE that names a column twice; CREATE TABLE IF NOT EXISTS on a table  *)
(* that exists does nothing.                                               *)
(***************************************************************************)
MaxStored == 4

create_table_if_not_exists(tbl, record_fields) ==
    LET normalized_fields == [i \in 1..Len(record_fields) |-> Lower(record_fields[i])]
        \* id SERIAL PRIMARY KEY, {f} TEXT ..., processed BOOLEAN DEFAULT FALSE
        field_defs == <<"id">> \o normalized_fields \o <<"processed">>
        names == {normalized_fields[i] : i \in 1..Len(normalized_fields)}
    IN IF tbl.exists
       \* Step 2: ALTER TABLE ADD COLUMN for the fields not in existing_columns
       THEN [tbl EXCEPT !.columns = @ \cup names]
       \* Step 1 raises, line 131 logs it, Step 2 is not reached
       ELSE IF \E i, j \in 1..Len(field_defs) : i # j /\ field_defs[i] = field_defs[j]
       THEN tbl
       ELSE [tbl EXCEPT !.exists = TRUE, !.columns = {"id", "processed"} \cup names]

\* store_records_in_db(records, table_name, key) for n records with the same
\* keys: the table is created or widened for records[0].keys(), then one
\* INSERT names the keys as they are (PostgreSQL folds them to lower case);
\* its failure is logged.  A text for the SERIAL column id is accepted or not.
call_store_records_in_db ==
    /\ \E keys \in {k \in SeqsUpTo({"Code", "code", "onset", "id"}, 2) :
                        /\ k # <<>>
                        /\ \A i, j \in 1..Len(k) : i # j => k[i] # k[j]},
          n \in 1..MaxRows, id_accepted \in BOOLEAN :
         LET created == create_table_if_not_exists(pg_table, keys)
             columns == [i \in 1..Len(keys) |-> Lower(keys[i])]
             inserted == /\ created.exists
                         /\ \A i \in 1..Len(columns) : columns[i] \in created.columns
                         /\ \A i, j \in 1..Len(columns) : i # j => columns[i] # columns[j]
                         /\ (\E i \in 1..Len(columns) : columns[i] = "id") => id_accepted
         IN /\ pg_table.rows + n <= MaxStored
            /\ pg_table' = [created EXCEPT !.rows = IF inserted THEN @ + n ELSE @,
                                           !.keys = keys]
    /\ UNCHANGED <<pipeVars, mapVars, aes_call, stateVars, poolVars, fetch_cycle>>

TableSpec ==
    /\ InitAt(FETCH_END_DATE, "HealthCheck", EmptyStore)
    /\ UnitsIdle("db")
    /\ pg_table = [exists |-> FALSE, columns |-> {}, rows |-> 0, keys |-> <<>>]
    /\ [][call_store_records_in_db]_vars

(***************************************************************************)
(* Properties                                                              *)
(***************************************************************************)
QueueRowsOf(identifier) == {x \in fhir_queue : x.identifier = identifier}
StagingRowsOf(rtype, identifier) == {x \in staging[rtype] : x.ident = identifier}
Key(p) == <<p.rtype, p.identifier>>

\* C1: with date-windowed fetching, each successful fetch (HTTP 200) of a
\* resource starts where its previous successful fetch ended: the pair written
\* to fetch_state has last_run_time equal to the next_run_time written before
\* (no gap, no overlap) and is strictly later, until end_date is reached.
C1_WindowsContiguous ==
    [][\A r \in Tables :
          (/\ FETCH_BY_DATE_ENABLED
           /\ pc \in {"FetchStandard", "FetchConsent"}
           /\ lastFetch'.res = r /\ lastFetch'.ok
           /\ fetch_state[r].present
           /\ fetch_state[r].next < FETCH_END_DATE)
          => (/\ fetch_state'[r].last = fetch_state[r].next
              /\ fetch_state'[r].last > fetch_state[r].last
              /\ fetch_state'[r].next > fetch_state[r].next)]_vars

\* C2: once the publisher got 200/201 for a queue row and has finished the
\* row, fhir_queue holds no row with that identifier and the resource's
\* staging table holds no row mapping to that identifier.
C2_PublishedLeavesNoRows ==
    (lastPub.done /\ lastPub.result = "true")
    => (/\ QueueRowsOf(lastPub.identifier) = {}
        /\ StagingRowsOf(lastPub.rtype, lastPub.identifier) = {})

\* C3: an enqueue whose (resource_type, identifier) is already in fhir_queue
\* leaves the queue as it was, and the queue never holds two rows with the
\* same (resource_type, identifier); in particular no two queued Consents
\* share an identifier.
C3_EnqueueIdempotent ==
    /\ lastEnq.hit => lastEnq.same
    /\ \A x, y \in fhir_queue :
          (x.rtype = y.rtype /\ x.identifier = y.identifier) => x = y

\* a standard row was enqueued while its identifier was already queued
C3_Witness ==
    /\ lastEnq.rtype = "condition" /\ lastEnq.hit /\ lastEnq.same
    /\ QueueRowsOf(lastEnq.identifier) # {}

\* C4: after a 4xx answer to the write of a queue row: a non-Consent row is
\* gone from the queue; a Consent row and its staging rows are retained, and
\* the Consent row is not sent again within the same run of the publisher.
C4_ClientErrorPolicy ==
    /\ (lastPub.done /\ lastPub.status = 400 /\ lastPub.rtype # "consent")
       => QueueRowsOf(lastPub.identifier) = {}
    /\ (lastPub.done /\ lastPub.status = 400 /\ lastPub.rtype = "consent")
       => (/\ QueueRowsOf(lastPub.identifier) # {}
           /\ StagingRowsOf("consent", lastPub.identifier) # {})
    /\ ~lastPub.resent

\* C5: when publishing a row has failed transiently (5xx or network error)
\* and the publisher has given up on it, the queue row and the staging rows
\* it came from are still there, for standard resources and for Consent.
C5_TransientKeepsRows ==
    (/\ lastPub.done /\ lastPub.result = "false"
     /\ (lastPub.verb = "" \/ lastPub.status \in {500, 0}))
    => (/\ QueueRowsOf(lastPub.identifier) # {}
        /\ StagingRowsOf(lastPub.rtype, lastPub.identifier) # {})

\* C6: when the write of a queue row was answered 5xx and the publisher gives
\* up on the row, it has made retry_count + 1 write attempts.
C6_RetriesOn5xx ==
    (lastPub.result = "false" /\ lastPub.status = 500)
    => lastPub.writes = QUERY_RETRY_COUNT + 1

\* C7: the Consent resource enqueued for a group key has as many provisions
\* as there were unprocessed Consent staging rows with that key when it was
\* processed.
C7_ProvisionCount ==
    (lastEnq.rtype = "consent" /\ ~lastEnq.same) => lastEnq.nprov = lastEnq.src

\* C8: the FHIR server never holds two resources with the same type and
\* identifier, across cycles and restarts: a POST is sent only when the search
\* before it found none, and once a resource exists every publish of its
\* identifier is a PUT.
C8_NoDuplicateOnServer ==
    /\ \A k \in Tables \X Idents : fhir[k] <= 1
    /\ lastPub.verb = "PUT" => fhir[Key(lastPub)] = 1
    /\ (lastPub.verb = "POST" /\ lastPub.status \in {400, 500}) => fhir[Key(lastPub)] = 0
    /\ (lastPub.verb = "POST" /\ lastPub.status = 201) => fhir[Key(lastPub)] = 1

\* an identifier that exists on the server was published again, as a PUT
C8_Witness ==
    /\ lastPub.verb = "PUT" /\ lastPub.result = "true"
    /\ fhir[Key(lastPub)] = 1

\* C9: every run of the standard publisher poll_and_process_fhir ends.
C9_StandardPublisherTerminates ==
    (pc = "PublishStandard") ~> (pc # "PublishStandard")

\* C10: when the insert of the fetched rows into the staging table failed,
\* in whole or in part, fetch_state of the resource is not written.
C10_NoStateAfterFailedInsert ==
    lastFetch.failed => ~lastFetch.wrote

\* C11: with date-windowed fetching, a resource whose window start is at or
\* beyond the (clamped) window end is skipped: every AQL request sent has
\* start < end, and no fetch_state row has next_run_time beyond end_date.
C11_NoFetchPastEnd ==
    /\ lastFetch.res # "" => lastFetch.start < lastFetch.end
    /\ \A r \in Tables :
          fetch_state[r].present => fetch_state[r].next <= fetch_end_date

\* C12: a fetch answered 204 or any status other than 200 leaves the
\* resource's staging table and its fetch_state row as they were, and
\* fetch_state changes only in a fetch step that was answered 200.
C12_OnlyOkFetchWrites ==
    [][/\ fetch_state' # fetch_state
          => (pc \in {"FetchStandard", "FetchConsent"} /\ lastFetch'.ok)
       /\ (/\ pc \in {"FetchStandard", "FetchConsent"}
           /\ lastFetch'.res # "" /\ ~lastFetch'.ok)
          => (/\ staging' = staging /\ fetch_state' = fetch_state
              /\ ~lastFetch'.wrote)]_vars

\* a fetch was answered other than 200 while rows and a fetch_state row of
\* the resource were there
C12_Witness ==
    /\ lastFetch.res # "" /\ ~lastFetch.ok
    /\ staging[lastFetch.res] # {}
    /\ fetch_state[lastFetch.res].present

\* C13: when the health check of a cycle fails, the cycle is abandoned before
\* fetching: the orchestrator is at Sleep, no AQL request was sent and no
\* processing or publishing stage ran; stages run only after a good heartbeat.
C13_FailedHeartbeatSkipsCycle ==
    /\ cycle.heartbeat = "raised"
       => (pc = "Sleep" /\ lastFetch = NoFetch /\ lastEnq = NoEnq /\ lastPub = NoPub)
    /\ pc \notin {"HealthCheck", "Sleep"} => cycle.heartbeat = "true"

\* the heartbeat step failed while fetched rows were waiting to be processed
C13_Witness ==
    /\ cycle.heartbeat = "raised" /\ pc = "Sleep"
    /\ Unprocessed(staging["condition"]) # {}

\* C14: the stages of a cycle run in the fixed order HealthCheck,
\* FetchStandard, ProcessStandard, PublishStandard, FetchConsent,
\* ProcessConsent, PublishConsent, Sleep; a stage other than HealthCheck that
\* raises does not change it: every step of the running process stays in its
\* stage or moves to the next one (a failed HealthCheck moves to Sleep).
C14_StageOrder ==
    [][\/ Crash
       \/ pc' = pc
       \/ pc' = StageAfter(pc)
       \/ pc = "HealthCheck" /\ pc' = "Sleep" /\ cycle'.heartbeat = "raised"]_vars

\* the processing stage raised with a row to enqueue, and the publisher is
\* about to start
C14_Witness ==
    /\ cycle.raised /\ pc = "PublishStandard"
    /\ \E x \in staging["condition"] : x.ident # 0 /\ QueueRowsOf(x.ident) = {}

\* C15: every exchange of a publisher is a search followed by exactly one
\* write: a PUT if and only if the search returned 200 with total > 0, and a
\* POST in every other case, a search answered otherwise included.
C15_SearchThenOneWrite ==
    lastPub.rtype # ""
    => /\ lastPub.verb \in {"PUT", "POST"}
       /\ (lastPub.verb = "PUT") <=> lastPub.found
       /\ (lastPub.verb = "POST") <=> ~lastPub.found

\* C16: mark-and-delete of a published queue row is one unit: however it is
\* left (completed, a database error, a crash between its statements), the
\* queue row is gone exactly when its corresponding staging rows are gone.
C16_MarkAndDeleteAtomic ==
    [][LET MarkAndDeleteSteps == {"mark", "del_q", "del_s"}
           \* the staging rows a queue row stands for: the row with the queue
           \* row's id for a standard resource, the rows of the group for a Consent
           CorrespondingStaging(stg, row) ==
               IF row.rtype = "consent"
               THEN {x \in stg["consent"] : x.ident = row.identifier}
               ELSE {x \in stg[row.rtype] : x.id = row.id}
       IN  (step \in MarkAndDeleteSteps /\ step' \notin MarkAndDeleteSteps)
           => (({x \in fhir_queue' : x.id = cur.id} = {})
               <=> (CorrespondingStaging(staging', cur) = {}))]_vars

\* C17: a staging row with processed = false has no queue row derived from
\* it: the standard row's id is no queue row's id of its resource type, and
\* the Consent row's group key is no queued Consent's identifier.
C17_UnprocessedNotEnqueued ==
    \A r \in Tables : \A x \in Unprocessed(staging[r]) :
        IF r = "consent"
        THEN {q \in fhir_queue : q.rtype = r /\ q.identifier = x.ident} = {}
        ELSE {q \in fhir_queue : q.rtype = r /\ q.id = x.id} = {}

\* the rows of the condition resource with one required field
\* empty-equivalent: missing, null, "", "None", "null", {} or []
EmptyRequiredData ==
    {[FullRow(i) EXCEPT ![col] = e] :
        i \in Idents, col \in CONDITION_REQUIRED,
        e \in TextEmpties \cup {EmptyDict, List(<<>>)}}
    \cup {[k \in DOMAIN FullRow(i) \ {col} |-> FullRow(i)[k]] :
            i \in Idents, col \in CONDITION_REQUIRED}

IsEmptyResource(resource) == resource.t = "dict" /\ DOMAIN resource.v = {}

\* C18: for a row with an empty-equivalent required field the mapper returns
\* the empty resource {}, and the step of the processing stage that handles
\* such a staging row leaves fhir_queue as it was.
C18_EmptyRequiredNotEnqueued ==
    [][(pc = "ProcessStandard" /\ step = "rows" /\ lastEnq'.rtype # "")
       => \A row \in batch \ batch' :
            row.ident = 0
            => /\ \A data \in EmptyRequiredData \cup RowData(row) :
                    IsEmptyResource(map_and_clean_resource(data, CONDITION_MAPPINGS,
                                                           CONDITION_REQUIRED))
               /\ fhir_queue' = fhir_queue]_vars

\* the processing stage has just handled a staging row with an empty required
\* field, which is still in its table
C18_Witness ==
    /\ lastEnq.rtype = "condition" /\ lastEnq.identifier = 0 /\ lastEnq.same
    /\ \E x \in staging["condition"] : x.ident = 0

\* "", "None", "null", {}, [], [{}] or null
IsEmptyEquivalent(value) ==
    \/ value.t = "none"
    \/ value.t = "str" /\ value.v \in {"", "None", "null"}
    \/ value.t = "dict" /\ DOMAIN value.v = {}
    \/ value.t = "list" /\ Len(value.v) = 0
    \/ value.t = "list" /\ Len(value.v) = 1 /\ IsEmptyResource(value.v[1])

\* no value inside a dict or list, at any level, is empty-equivalent
RECURSIVE NoEmptyInside(_)
NoEmptyInside(value) ==
    CASE value.t = "dict" ->
           \A k \in DOMAIN value.v :
              ~IsEmptyEquivalent(value.v[k]) /\ NoEmptyInside(value.v[k])
      [] value.t = "list" ->
           \A i \in 1..Len(value.v) :
              ~IsEmptyEquivalent(value.v[i]) /\ NoEmptyInside(value.v[i])
      [] OTHER -> TRUE

\* C19: the resource the mapper returns holds no value, at any nesting
\* level, equal to "", "None", "null", {}, [], [{}] or null; a list of empty
\* dicts only is absent.
C19_NoEmptyValues ==
    fhir_resource.t = "dict" => NoEmptyInside(fhir_resource)

\* the mapper was given a list of two dicts whose placeholders print as "" and
\* "None", and returned a resource without that field
C19_Witness ==
    /\ fhir_resource.t = "dict"
    /\ DOMAIN fhir_resource.v = {"identifier"}
    /\ "section" \in DOMAIN yaml_mappings
    /\ yaml_mappings["section"] =
          List(<<Dict([a |-> Tpl(<<Var("c")>>)]), Tpl(<<Var("d")>>)>>)
    /\ row_data["c"] = Str("") /\ row_data["d"] = PyNone

\* the columns named by the placeholders of a template
RECURSIVE Placeholders(_)
Placeholders(template) ==
    CASE template.t = "tpl" ->
           {template.v[i].s : i \in {j \in 1..Len(template.v) : template.v[j].k = "var"}}
      [] template.t = "dict" ->
           UNION {Placeholders(template.v[k]) : k \in DOMAIN template.v}
      [] template.t = "list" ->
           UNION {Placeholders(template.v[i]) : i \in 1..Len(template.v)}
      [] OTHER -> {}

\* C20: when the template has placeholders and each of them resolves to an
\* empty value for the row, the mapper returns the empty resource {},
\* whatever literal constants stand next to the placeholders.
C20_EmptyPlaceholdersGiveEmpty ==
    LET names == Placeholders(Dict(yaml_mappings))
    IN (/\ fhir_resource.t = "dict"
        /\ names # {}
        /\ \A n \in names : IsEmptyEquivalent(Get(row_data, n)))
       => IsEmptyResource(fhir_resource)

\* C21: with max_retries set, the health check whose probe failed max_retries
\* times in a row has stopped retrying: it is not at the probe loop with that
\* many failed probes behind it.
C21_HeartbeatGivesUp ==
    pc = "HealthCheck" => probes < HEALTH_CHECK_MAX_RETRIES

\* C22: no fetch, mapping or publish step of a cycle runs before both the EHR
\* probe and the FHIR probe of that cycle have succeeded.
C22_BothServersProbed ==
    pc \notin {"HealthCheck", "Sleep"} => cycle.probed = {"ehr", "fhir"}

\* C23: in deterministic AES mode, decrypting what aes_encrypt returned for a
\* text, with the same key and the text as plaintext_hint, returns exactly that
\* text, and encrypting the text twice returns the same ciphertext.
C23_AesRoundTrip ==
    /\ aes_call.step \in {"again", "decrypted"} => aes_call.again = aes_call.ciphertext
    /\ aes_call.step = "decrypted" => aes_call.decrypted = aes_call.plaintext

\* C24: with fetch_by_date disabled, get_last_run_time(r) returns the value
\* most recently set for r when that value was given as YYYY-MM-DD HH:MM:SS,
\* and None when r was never set, was cleared since, or the state file does
\* not exist.
C24_StoreIsAMap ==
    LET r == state_calls.resource_type
    IN  (~state_calls.enabled /\ r # "") =>
            /\ (r \in DOMAIN state_calls.set
                /\ \E dt \in RunTimes : state_calls.set[r] = strftime(dt))
                   => state_calls.returned = state_calls.set[r]
            /\ (r \notin DOMAIN state_calls.set \/ ~state_file.exists)
                   => state_calls.returned = None

C24_Witness ==
    /\ ~state_calls.enabled
    /\ state_calls.resource_type = "Condition"
    /\ "Condition" \in DOMAIN state_calls.set
    /\ "NewResource" \in DOMAIN state_calls.set
    /\ state_calls.returned = state_calls.set["Condition"]
    /\ state_calls.returned # state_calls.set["NewResource"]

\* C25: when storing a fetched result set fails on one row, every other row of
\* the result set is inserted into the staging table.
C25_RowFailureIsolated ==
    (lastFetch.res # "" /\ lastFetch.failed)
        => lastFetch.stored = lastFetch.received - 1

\* C26: no pool connection is held across an HTTP call, and no thread acquires
\* a second pool connection while it still holds one.
C26_NoConnectionAcrossHttp ==
    db_thread.last \in {"http", "get"} => db_thread.was_held = 0

\* C27: every connection obtained with get_db_connection is given back: between
\* operations the thread holds none and the pool has none checked out, also
\* after a stale connection was replaced; and get_db_connection never returns a
\* closed connection.
C27_ConnectionsGivenBack ==
    /\ db_thread.todo = <<>> => (db_thread.held = <<>> /\ pg_pool.used = {})
    /\ ~db_thread.got_closed

\* C28: a Consent staging row is marked processed only once a fhir_queue row
\* whose identifier is the row's group value exists, also when the queue
\* insert raised a database error.
C28_ProcessedMeansQueued ==
    [][\A x \in staging'["consent"] :
          (x.processed /\ [x EXCEPT !.processed = FALSE] \in staging["consent"])
              => \E q \in fhir_queue' : q.identifier = x.ident]_vars

\* C29: a pass of process_consent_resources that reads Consent rows without a
\* group key (absent, NULL or empty) still groups and maps every group of the
\* rows it read that have one.
C29_MissingKeyDropped ==
    [][(/\ pc = "ProcessConsent" /\ step = "read"
        /\ (step' = "rows" \/ pc' = "PublishConsent")
        /\ ~cycle'.raised)
       => \E b \in (IF USE_BATCH
                    THEN read_unprocessed_consents_in_batch(staging["consent"], BATCH_SIZE)
                    ELSE read_unprocessed_consents(staging["consent"])) :
            {x.ident : x \in {y \in b : y.ident \notin {0, NULL_KEY}}}
                \subseteq {m.id : m \in mapped'}]_vars

\* C30: with priority-based fetching on, no AQL request is sent in a cycle for
\* a resource whose time since its last run is below the interval of its
\* priority.
C30_BelowIntervalSkipped ==
    fetch_cycle.requested # "" => ~fetch_cycle.below

\* C32: for a date-bearing key of the mapping the mapper emits
\* YYYY-MM-DDTHH:MM:SSZ for every ISO-8601 input, with or without fractional
\* seconds; the key is dropped only for an input that cannot be parsed.
C32_IsoDatesReemitted ==
    (/\ fhir_resource.t = "dict"
     /\ "recordedDate" \in DOMAIN yaml_mappings
     /\ yaml_mappings["recordedDate"] = Tpl(<<Var("c")>>)
     /\ row_data["c"] \in {Str("2020-01-01T00:00:00.000000"), Str("2020-01-01T00:00:00")})
    => Get(fhir_resource.v, "recordedDate") = Str("2020-01-01T00:00:00Z")

\* C33: enqueueing a mapped standard staging row is never suppressed by a
\* queue row of another resource: when no queue row of the row's own resource
\* type holds its id or its identifier, the row is in fhir_queue after
\* process_single_row, whatever rows of other resources the queue holds.
C33_ForeignRowNeverSuppresses ==
    [][(pc = "ProcessStandard" /\ step = "rows"
        /\ lastEnq'.rtype # "" /\ lastEnq'.identifier # 0)
       => \A row \in batch \ batch' :
            (~\E x \in fhir_queue :
                 /\ x.rtype = lastEnq'.rtype
                 /\ (x.id = row.id \/ x.identifier = lastEnq'.identifier))
            => \E x \in fhir_queue' :
                 /\ x.rtype = lastEnq'.rtype /\ x.id = row.id
                 /\ x.identifier = lastEnq'.identifier]_vars

\* C34: a Consent staging row is marked processed only if it was in the batch
\* the processor read and a Consent resource with its provision was enqueued
\* for its group in that step, and it is deleted only after it was so marked:
\* no row outside the batch, and no row staged after its group was enqueued,
\* is marked or deleted without having been included.
C34_MarkedOrDeletedWasIncluded ==
    [][\A x \in staging["consent"] :
          /\ (~x.processed /\ [x EXCEPT !.processed = TRUE] \in staging'["consent"])
             => /\ x \in batch
                /\ \E q \in fhir_queue' \ fhir_queue :
                      q.rtype = "consent" /\ q.identifier = x.ident
          /\ (\A y \in staging'["consent"] : y.id # x.id) => x.processed]_vars

\* C31: the column set of a staging table only grows: after
\* create_table_if_not_exists(name, columns) the table has every lowercased
\* name of columns, plus id and processed, and no sequence of stores with
\* differing column sets removes a column or rows already stored.
C31_ColumnsOnlyGrow ==
    /\ [](pg_table.keys # <<>>
          => /\ pg_table.exists
             /\ {Lower(pg_table.keys[i]) : i \in 1..Len(pg_table.keys)}
                   \cup {"id", "processed"} \subseteq pg_table.columns)
    /\ [][/\ pg_table.columns \subseteq pg_table'.columns
          /\ pg_table.rows <= pg_table'.rows
          /\ pg_table.exists => pg_table'.exists]_vars

\* C38: the two publishers work on disjoint queue rows: the standard
\* publisher never sends, marks or deletes a queue row whose resource_type is
\* Consent and never deletes a Consent staging row; the Consent publisher
\* reads, sends and deletes only queue rows whose resource_type is Consent.
C38_PublishersDisjoint ==
    [][/\ pc = "PublishStandard"
          => /\ \A x \in fhir_queue : x.rtype = "consent" => x \in fhir_queue'
             /\ staging["consent"] \subseteq staging'["consent"]
             /\ \A k \in DOMAIN fhir : k[1] = "consent" => fhir'[k] = fhir[k]
             /\ lastPub' # lastPub => lastPub'.rtype # "consent"
             /\ cur'.rtype # "consent"
       /\ pc = "PublishConsent"
          => /\ \A x \in fhir_queue : x.rtype # "consent" => x \in fhir_queue'
             /\ \A k \in DOMAIN fhir : k[1] # "consent" => fhir'[k] = fhir[k]
             /\ lastPub' # lastPub => lastPub'.rtype \in {"consent", ""}
             /\ pc' = "PublishConsent"
                => /\ \A x \in rows' : x.rtype = "consent"
                   /\ cur'.rtype \in {"consent", ""}]_vars

\* the standard publisher has deleted the queue row of a standard resource
\* while a Consent row waits in the queue
C38_Witness ==
    /\ pc = "PublishStandard" /\ step = "del_s"
    /\ cur.rtype # "consent"
    /\ \E x \in fhir_queue : x.rtype = "consent" /\ ~x.processed

\* C36: with use_batch on, every standard staging row that maps successfully
\* is eventually enqueued, whatever the number of other rows of its table
\* that fail mapping for good and stay there with processed = false (while
\* the heartbeat succeeds and no stage raises).  A row that is no longer in
\* its table has been enqueued and published.
C36_MappableRowEnqueued ==
    [](cycle.heartbeat # "raised" /\ ~cycle.raised)
    => \A i \in 1..MaxStoredId :
          (\E x \in staging["condition"] : x.id = i /\ x.ident # 0 /\ ~x.processed)
          ~> \/ \E q \in fhir_queue : q.rtype = "condition" /\ q.id = i
             \/ \A x \in staging["condition"] : x.id # i

\* C35: a Consent queue row that the FHIR server would accept is eventually
\* published, whatever the number of other Consent queue rows that are
\* rejected with 4xx for good and retained; the servers stay reachable (good
\* heartbeat, no stage raises, every search answered, every write answered
\* 400 for the rejected identifiers and 201 for the acceptable one).
C35_AcceptableConsentPublished ==
    [](/\ cycle.heartbeat # "raised" /\ ~cycle.raised
       /\ lastPub.rtype = "consent"
          => /\ lastPub.verb # ""
             /\ lastPub.status = IF lastPub.identifier = MaxStoredId THEN 201 ELSE 400)
    => ((\E q \in fhir_queue : q.rtype = "consent" /\ q.identifier = MaxStoredId)
        ~> \/ fhir[<<"consent", MaxStoredId>>] > 0
           \/ \A q \in fhir_queue : q.identifier # MaxStoredId)

C39_ParallelFetchesWithinPool ==
    /\ Cardinality(pg_pool.used) <= MAXCONN
    /\ \A t \in DOMAIN fetch_threads : ~fetch_threads[t].failed

====
